---- MODULE Spec2Model ----
(***************************************************************************)
(* The request-orchestration pipeline of python-mcp-ai-agent:              *)
(*   MCPConnectorManager / MCPClient   (src/mcp_client.py)                 *)
(*   AIAgentDebug                      (src/ai_agent_debug.py)             *)
(*                                                                         *)
(* Scheduling: one asyncio event loop.  A coroutine runs without           *)
(* interruption until it reaches an await that really suspends (an HTTP    *)
(* exchange with a provider, a call of the reasoning backend, the close of *)
(* a session).  Every action below is one such uninterrupted run.          *)
(*                                                                         *)
(* Encodings.  A Python str is a sequence of string pieces (an f-string is *)
(* the concatenation of its pieces, "" is << >>).  An Optional value is a  *)
(* sequence of length at most one (None is << >>).  A dict that is         *)
(* iterated is a sequence of entries in insertion order, a deleted entry   *)
(* leaving a tombstone as in CPython.                                      *)
(***************************************************************************)
EXTENDS Naturals, Sequences, FiniteSets, TLC

VARIABLES
    agent,          \* the AIAgentDebug object: gemini_model, anthropic_client
    credentials,    \* history: the api keys AIAgentDebug was constructed with
    connectors,     \* MCPConnectorManager.connectors: name -> MCPClient
    session,        \* session[c]: state of MCPClient c's aiohttp session
    endpoint,       \* endpoint[c]: MCPClient c's base_url
    delPending,     \* delPending[name]: the remove_connector(name) invocations that
                    \* are suspended before their del
    delRaised,      \* history: names for which a remove_connector ended with the
                    \* KeyError of its del
    closeAll,       \* the close_all coroutine: position, names still to remove
    removedAbsent,  \* history: names that remove_connector was called with while
                    \* they were not registered, and that it returned None for
    pc,             \* position of the process_request coroutine
    catPos,         \* list_all_tools: position of the dict iterator
    catUsed,        \* list_all_tools: dict size seen when the iterator was made
    catLeft,        \* list_all_tools: items the iterator still expects
    catCur,         \* list_all_tools: the (name, client) whose list_tools is awaited
    all_tools,      \* list_all_tools: result, name -> tool list
    available_tools,\* _select_tools: available_tools
    llmResponse,    \* the reasoning backend's answer, delivered and not yet read
    reasoning,      \* process_request: reasoning
    tool_calls,     \* process_request: tool_calls
    results,        \* _execute_tool_calls: results
    inflight,       \* tools/call requests posted and not yet answered
    returned,       \* what process_request returned (or the exception it raised)
    phaseLog,       \* history: the phases this request has entered, in order
    llmCalls,       \* history: calls of the reasoning backend by this request
    backendLog,     \* history: the backend each of these calls went to
    catalogQueries, \* history: list_all_tools invocations by this request
    dispatchLog,    \* history: indices of the calls handed to call_tool_on_connector
    answerRead,     \* history: the backend's answer that _select_tools has read
    listLog,        \* history: the providers' answers to the running list_all_tools
    provLog,        \* history: what the providers answered to the calls in flight, and
                    \* whether the session of the call was closed under it
    suspended,      \* the locals (and history) of the agent's other process_request
                    \* invocation, the one that is not running
    running         \* which of the two invocations the variables above belong to

regVars == <<connectors, session, endpoint, delPending, delRaised, closeAll, removedAbsent>>
reqVars == <<pc, catPos, catUsed, catLeft, catCur, all_tools, available_tools, llmResponse, reasoning,
             tool_calls, results, inflight, returned>>
histVars == <<phaseLog, llmCalls, backendLog, catalogQueries, dispatchLog, answerRead, listLog,
              provLog>>
agentVars == <<agent, credentials>>
taskVars == <<suspended, running>>
vars == <<agentVars, taskVars, regVars, reqVars, histVars>>

(***************************************************************************)
(* Bounds of the model.                                                    *)
(***************************************************************************)
\* MCPClient objects ever created by add_connector
MaxClients == 2
\* entries of tool_calls in one answer of the reasoning backend
MaxCalls == 2
\* remove_connector invocations for one name that are suspended at a time
MaxRemovals == 2

ConnectorNames == {"wf", "db"}

\* base_url values: one where a connector server listens, one where none does
Reachable == "http://localhost:3000"
Unreachable == "http://localhost:3999"
ToolNames == {"start_workflow", "register_actor"}

None == << >>
Some(x) == <<x>>

(***************************************************************************)
(* MCPConnectorManager.connectors as an insertion-ordered dict.            *)
(***************************************************************************)
Tombstone == [name |-> "<deleted>", client |-> 0]

Live(d) == {i \in 1..Len(d) : d[i] # Tombstone}

DictKeys(d) == {d[i].name : i \in Live(d)}

DictGet(d, k) == d[CHOOSE i \in Live(d) : d[i].name = k].client

\* variant of the code: connectors.setdefault(name, client)
DictSet_keep_existing(d, k, c) ==
    IF k \in DictKeys(d) THEN d ELSE Append(d, [name |-> k, client |-> c])

DictSet(d, k, c) ==
    IF k \in DictKeys(d)
    THEN [i \in 1..Len(d) |-> IF d[i] # Tombstone /\ d[i].name = k
                              THEN [name |-> k, client |-> c] ELSE d[i]]
    ELSE Append(d, [name |-> k, client |-> c])

DictDel(d, k) ==
    [i \in 1..Len(d) |-> IF d[i] # Tombstone /\ d[i].name = k THEN Tombstone ELSE d[i]]

DictUsed(d) == Cardinality(Live(d))

(***************************************************************************)
(* The answer of the reasoning backend.                                    *)
(*                                                                         *)
(* A parsed JSON document.  is_obj: the top-level value is an object.      *)
(* reasoning: the value of key "reasoning" (None: key absent).  tc: the    *)
(* value of key "tool_calls": absent, null, a scalar, or a list of items.  *)
(* An item is an object whose four keys may each be absent (None), or a    *)
(* value that is no object.                                                *)
(***************************************************************************)
ToolCallKeys == <<"connector_name", "tool_name", "arguments", "reasoning">>

ArgumentsFor(t) ==
    IF t = "start_workflow" THEN "{title: Demo}" ELSE "{name: Alice, role: DBA}"

ReasoningFor(t) == IF t = "start_workflow" THEN "r1" ELSE "r2"

WellFormedItem(c, t) ==
    [is_obj |-> TRUE, connector_name |-> Some(c), tool_name |-> Some(t),
     arguments |-> Some(ArgumentsFor(t)), reasoning |-> Some(ReasoningFor(t))]

ItemWithout(k) ==
    [WellFormedItem("wf", "register_actor") EXCEPT ![k] = None]

ScalarItem ==
    [is_obj |-> FALSE, connector_name |-> None, tool_name |-> None,
     arguments |-> None, reasoning |-> None]

\* the tool calls the backend may ask for
CallTargets == {<<"wf", "start_workflow">>, <<"db", "register_actor">>}

GoodItems == {WellFormedItem(ct[1], ct[2]) : ct \in CallTargets}

BadItems == {ItemWithout(ToolCallKeys[i]) : i \in 1..4} \cup {ScalarItem}

GoodLists == UNION {[1..n -> GoodItems] : n \in 0..MaxCalls}

\* a list with one item that is no well-formed tool call, at any place
BadLists ==
    UNION {{SubSeq(l, 1, k) \o <<b>> \o SubSeq(l, k + 1, Len(l)) :
               k \in 0..Len(l), b \in BadItems} :
           l \in {g \in GoodLists : Len(g) < MaxCalls /\ \A i \in 1..Len(g) : g[i] = g[1]}}

NoToolCalls(kind) == [kind |-> kind, items |-> << >>]

\* a tool_calls that is a string or an object: the for loop of ai_agent_debug.py
\* 165 iterates over its characters or its keys (none for "" and {}), which are
\* strings
IterableValues ==
    {[kind |-> "iterable", items |-> l] : l \in {<< >>, <<ScalarItem>>}}

ListDoc(r, l) == [is_obj |-> TRUE, reasoning |-> r, tc |-> [kind |-> "list", items |-> l]]

Docs ==
    {ListDoc(Some("two steps needed"), l) : l \in GoodLists \cup BadLists}
    \cup {ListDoc(None, l) : l \in {g \in GoodLists : Len(g) <= 1}}
    \cup {[is_obj |-> TRUE, reasoning |-> Some("two steps needed"), tc |-> NoToolCalls(k)] :
        k \in {"absent", "null", "scalar"}}
    \cup {[is_obj |-> TRUE, reasoning |-> Some("two steps needed"), tc |-> t] :
        t \in IterableValues}
    \cup {[is_obj |-> FALSE, reasoning |-> None, tc |-> NoToolCalls("absent")]}

NoDoc == [is_obj |-> FALSE, reasoning |-> None, tc |-> NoToolCalls("none")]

(***************************************************************************)
(* The text of an answer, as a sequence of tokens: "fence_json" is the     *)
(* seven characters ```json, "fence" is ```, "ws" is a run of whitespace,  *)
(* "body" is a run of other characters, which either is the serialization  *)
(* of a JSON document (doc) or is no JSON text at all (doc = NoDoc).       *)
(***************************************************************************)
Tok(k) == [k |-> k, doc |-> NoDoc]
Body(d) == [k |-> "body", doc |-> d]

Prefixes == {<< >>, <<Tok("fence_json"), Tok("ws")>>, <<Tok("ws"), Tok("fence"), Tok("ws")>>}
Suffixes == {<< >>, <<Tok("ws"), Tok("fence")>>, <<Tok("ws"), Tok("fence"), Tok("ws")>>}

\* the documents that are also given inside fences
FencedDocs == {d \in Docs : d.tc.kind = "list" => Len(d.tc.items) <= 1} \cup {NoDoc}

Texts ==
    {<<Body(d)>> : d \in Docs \cup {NoDoc}}
        \cup {p \o <<Body(d)>> \o s : p \in Prefixes, d \in FencedDocs, s \in Suffixes}
        \cup {<< >>, <<Tok("fence")>>}

\* str.strip()
RECURSIVE lstrip(_)
lstrip(t) == IF t # << >> /\ Head(t).k = "ws" THEN lstrip(Tail(t)) ELSE t

RECURSIVE rstrip(_)
rstrip(t) ==
    IF t # << >> /\ t[Len(t)].k = "ws" THEN rstrip(SubSeq(t, 1, Len(t) - 1)) ELSE t

strip(t) == rstrip(lstrip(t))

\* the value of an expression that is computed once and bound to a local:
\* The({e(x) : x \in {v}}) is e(v), with v evaluated a single time
The(S) == CHOOSE x \in S : TRUE

\* variant of the code: a closing ``` is left in place
CleanContent_keep_closing_fence(text) ==
    The({The({strip(c1) :
        c1 \in {IF c0 # << >> /\ Head(c0).k = "fence_json" THEN Tail(c0) ELSE c0}}) :
        c0 \in {strip(text)}})

\* ai_agent_debug.py 146-153: cleaned_content after each of the assignments
\* (c0: content.strip(), c1: without the opening fence, c2: without the
\* closing fence), and the final strip()
CleanContent(text) ==
    The({The({The({strip(c2) :
        c2 \in {IF c1 # << >> /\ c1[Len(c1)].k = "fence"
                THEN SubSeq(c1, 1, Len(c1) - 1) ELSE c1}}) :
        c1 \in {IF c0 # << >> /\ Head(c0).k = "fence_json" THEN Tail(c0) ELSE c0}}) :
        c0 \in {strip(text)}})

\* json.loads: the document (whitespace around it is skipped), or JSONDecodeError
json_loads(content) ==
    The({IF Len(c) = 1 /\ c[1].k = "body" /\ c[1].doc # NoDoc
         THEN [ok |-> TRUE, doc |-> c[1].doc]
         ELSE [ok |-> FALSE, doc |-> NoDoc] :
        c \in {strip(content)}})

\* the first key of ToolCallKeys, in the order the constructor call reads them,
\* that the item lacks (0: none)
FirstMissing(item) ==
    IF item.connector_name = None THEN 1
    ELSE IF item.tool_name = None THEN 2
    ELSE IF item.arguments = None THEN 3
    ELSE IF item.reasoning = None THEN 4
    ELSE 0

\* @dataclass ToolCall
ToolCall(item) ==
    [connector_name |-> item.connector_name[1], tool_name |-> item.tool_name[1],
     arguments |-> item.arguments[1], reasoning |-> item.reasoning[1]]

RECURSIVE BuildToolCalls(_, _)

\* variant of the code: an entry that lacks a key is skipped
BuildToolCalls_skip_malformed(items, acc) ==
    IF items = << >> THEN [exc |-> None, calls |-> acc]
    ELSE LET item == Head(items) IN
         IF ~ item.is_obj
         THEN [exc |-> Some("TypeError: indices must be integers"), calls |-> << >>]
         ELSE IF FirstMissing(item) # 0
         THEN BuildToolCalls(Tail(items), acc)
         ELSE BuildToolCalls(Tail(items), Append(acc, ToolCall(item)))

\* variant of the code: an entry that is no object is skipped
BuildToolCalls_skip_non_objects(items, acc) ==
    IF items = << >> THEN [exc |-> None, calls |-> acc]
    ELSE LET item == Head(items) IN
         IF ~ item.is_obj
         THEN BuildToolCalls(Tail(items), acc)
         ELSE IF FirstMissing(item) # 0
         THEN [exc |-> Some(ToolCallKeys[FirstMissing(item)]), calls |-> << >>]
         ELSE BuildToolCalls(Tail(items), Append(acc, ToolCall(item)))

\* variant of the code: tool_calls.insert(0, ...) in place of append
BuildToolCalls_prepend(items, acc) ==
    IF items = << >> THEN [exc |-> None, calls |-> acc]
    ELSE LET item == Head(items) IN
         IF ~ item.is_obj
         THEN [exc |-> Some("TypeError: indices must be integers"), calls |-> << >>]
         ELSE IF FirstMissing(item) # 0
         THEN [exc |-> Some(ToolCallKeys[FirstMissing(item)]), calls |-> << >>]
         ELSE BuildToolCalls(Tail(items), <<ToolCall(item)>> \o acc)

\* the for loop of ai_agent_debug.py 165-171: the calls, or the exception raised
BuildToolCalls(items, acc) ==
    IF items = << >> THEN [exc |-> None, calls |-> acc]
    ELSE LET item == Head(items) IN
         IF ~ item.is_obj
         THEN [exc |-> Some("TypeError: indices must be integers"), calls |-> << >>]
         ELSE IF FirstMissing(item) # 0
         THEN [exc |-> Some(ToolCallKeys[FirstMissing(item)]), calls |-> << >>]
         ELSE BuildToolCalls(Tail(items), Append(acc, ToolCall(item)))

FailedToParse == <<"Failed to parse tool selection">>
ErrorInToolSelection(cause) == <<"Error in tool selection: ", cause>>

\* variant of the code: a JSONDecodeError is left to the outer handler
ExtractIntent_no_decode_handler(resp) ==
    IF resp.raised
    THEN [reasoning |-> ErrorInToolSelection(resp.cause), tool_calls |-> << >>]
    ELSE
    The({The({
        IF ~ parsed.ok
        THEN [reasoning |-> ErrorInToolSelection("JSONDecodeError"), tool_calls |-> << >>]
        ELSE IF ~ doc.is_obj
        THEN [reasoning |-> ErrorInToolSelection("AttributeError: no attribute 'get'"),
              tool_calls |-> << >>]
        ELSE IF doc.tc.kind \in {"null", "scalar"}
        THEN [reasoning |-> ErrorInToolSelection("TypeError: object is not iterable"),
              tool_calls |-> << >>]
        ELSE The({
             IF built.exc # None
             THEN [reasoning |-> ErrorInToolSelection(built.exc[1]), tool_calls |-> << >>]
             ELSE [reasoning |-> doc.reasoning, tool_calls |-> built.calls] :
             built \in {BuildToolCalls(doc.tc.items, << >>)}}) :
        doc \in {parsed.doc}}) :
        parsed \in {json_loads(CleanContent(resp.text))}})

\* ai_agent_debug.py 145-185, from the answer of the backend to the return value
ExtractIntent(resp) ==
    IF resp.raised
    THEN [reasoning |-> ErrorInToolSelection(resp.cause), tool_calls |-> << >>]
    ELSE
    The({The({
        IF ~ parsed.ok
        THEN [reasoning |-> FailedToParse, tool_calls |-> << >>]
        ELSE IF ~ doc.is_obj
        THEN [reasoning |-> ErrorInToolSelection("AttributeError: no attribute 'get'"),
              tool_calls |-> << >>]
        ELSE IF doc.tc.kind \in {"null", "scalar"}
        THEN [reasoning |-> ErrorInToolSelection("TypeError: object is not iterable"),
              tool_calls |-> << >>]
        ELSE The({
             IF built.exc # None
             THEN [reasoning |-> ErrorInToolSelection(built.exc[1]), tool_calls |-> << >>]
             ELSE [reasoning |-> doc.reasoning, tool_calls |-> built.calls] :
             built \in {BuildToolCalls(doc.tc.items, << >>)}}) :
        doc \in {parsed.doc}}) :
        parsed \in {json_loads(CleanContent(resp.text))}})

BackendAnswers ==
    {[raised |-> TRUE, cause |-> "backend unavailable", text |-> << >>]}
        \cup {[raised |-> FALSE, cause |-> "", text |-> t] : t \in Texts}

NoAnswer == [raised |-> FALSE, cause |-> "<none>", text |-> << >>]

(***************************************************************************)
(* MCPClient and MCPConnectorManager (src/mcp_client.py).                  *)
(***************************************************************************)
MCPToolResult(content, error) == [content |-> content, error |-> error]

\* what a provider may answer to tools/call
ToolAnswers ==
    {[kind |-> "ok", content |-> <<"payload">>, message |-> None],
     [kind |-> "rpc_error", content |-> << >>, message |-> Some("tool failed")],
     [kind |-> "rpc_error", content |-> << >>, message |-> None],
     [kind |-> "fault", content |-> << >>, message |-> None]}

\* variant of the code: the except of call_tool returns an empty result
CallToolReturn_fault_without_error(ans) ==
    IF ans.kind = "fault"
    THEN MCPToolResult(<< >>, None)
    ELSE IF ans.kind = "rpc_error"
    THEN MCPToolResult(<< >>, IF ans.message = None THEN None ELSE Some(ans.message))
    ELSE MCPToolResult(ans.content, None)

\* mcp_client.py 70-94: the value call_tool returns for an answer
CallToolReturn(ans) ==
    IF ans.kind = "fault"
    THEN MCPToolResult(<< >>, Some(<<"transport fault">>))
    ELSE IF ans.kind = "rpc_error"
    THEN MCPToolResult(<< >>, IF ans.message = None THEN None ELSE Some(ans.message))
    ELSE MCPToolResult(ans.content, None)

\* mcp_client.py 45-77: call_tool up to its suspension at session.post; a closed
\* session makes post raise at once, which call_tool turns into a result
call_tool(sess, c) ==
    IF sess[c] = "closed"
    THEN [kind |-> "return", exc |-> << >>, client |-> c,
          result |-> MCPToolResult(<< >>, Some(<<"Session is closed">>))]
    ELSE [kind |-> "await", exc |-> << >>, client |-> c,
          result |-> MCPToolResult(<< >>, None)]

\* variant of the code: the error of an unknown connector does not name it
call_tool_on_connector_anonymous(conns, sess, connector_name) ==
    IF connector_name \notin DictKeys(conns)
    THEN [kind |-> "raise", exc |-> <<"Connector not found">>,
          client |-> 0, result |-> MCPToolResult(<< >>, None)]
    ELSE call_tool(sess, DictGet(conns, connector_name))

\* variant of the code: a name that is not registered is served by the first
\* connector of the registry
call_tool_on_connector_default(conns, sess, connector_name) ==
    IF connector_name \notin DictKeys(conns)
    THEN IF DictKeys(conns) = {}
         THEN [kind |-> "raise", exc |-> <<"Connector '", connector_name, "' not found">>,
               client |-> 0, result |-> MCPToolResult(<< >>, None)]
         ELSE call_tool(sess, conns[CHOOSE i \in Live(conns) : \A j \in Live(conns) : i <= j].client)
    ELSE call_tool(sess, DictGet(conns, connector_name))

\* mcp_client.py 176-196
call_tool_on_connector(conns, sess, connector_name) ==
    IF connector_name \notin DictKeys(conns)
    THEN [kind |-> "raise", exc |-> <<"Connector '", connector_name, "' not found">>,
          client |-> 0, result |-> MCPToolResult(<< >>, None)]
    ELSE call_tool(sess, DictGet(conns, connector_name))

\* what a provider may answer to tools/list
ToolLists == {<< >>, <<"start_workflow">>, <<"start_workflow", "register_actor">>}

ListAnswers ==
    {[kind |-> "ok", tools |-> l] : l \in ToolLists}
        \cup {[kind |-> k, tools |-> << >>] : k \in {"rpc_error", "fault", "malformed"}}

\* variant of the code: list_tools returns a list it has kept from before
ListToolsReturn_cached(ans) == [wellformed |-> TRUE, tools |-> <<"start_workflow">>]

\* mcp_client.py 112-129: the value list_tools returns for an answer.  A "tools"
\* value that is no list of objects is handed on as it is.
ListToolsReturn(ans) ==
    IF ans.kind = "ok" THEN [wellformed |-> TRUE, tools |-> ans.tools]
    ELSE IF ans.kind = "malformed" THEN [wellformed |-> FALSE, tools |-> << >>]
    ELSE [wellformed |-> TRUE, tools |-> << >>]

\* variant of the code: a provider without tools gets no entry
ResultSet_skip_empty(acc, name, lst) ==
    IF lst.wellformed /\ lst.tools = << >> THEN acc
    ELSE IF \E i \in 1..Len(acc) : acc[i].name = name
    THEN [i \in 1..Len(acc) |-> IF acc[i].name = name
                                THEN [name |-> name, list |-> lst] ELSE acc[i]]
    ELSE Append(acc, [name |-> name, list |-> lst])

\* result[name] = ... on the local dict of list_all_tools
ResultSet(acc, name, lst) ==
    IF \E i \in 1..Len(acc) : acc[i].name = name
    THEN [i \in 1..Len(acc) |-> IF acc[i].name = name
                                THEN [name |-> name, list |-> lst] ELSE acc[i]]
    ELSE Append(acc, [name |-> name, list |-> lst])

NextLive(d, pos) ==
    IF \E i \in Live(d) : i > pos
    THEN CHOOSE i \in Live(d) : i > pos /\ \A j \in Live(d) : j > pos => i <= j
    ELSE 0

\* mcp_client.py 198-208: the loop of list_all_tools from iterator position pos
\* up to its next suspension (a list_tools posted), its end, or the RuntimeError
\* of the dict iterator: the dict changed size, or an item turns up when the
\* iterator has given out as many as the dict held (left = 0)
RECURSIVE list_all_tools(_, _, _, _, _, _)
list_all_tools(conns, sess, pos, used, left, acc) ==
    IF DictUsed(conns) # used
    THEN [kind |-> "raise", pos |-> pos, left |-> left, cur |-> Tombstone, acc |-> acc,
          exc |-> "RuntimeError: dictionary changed size during iteration"]
    ELSE IF NextLive(conns, pos) = 0
    THEN [kind |-> "return", pos |-> pos, left |-> left, cur |-> Tombstone, acc |-> acc,
          exc |-> ""]
    ELSE IF left = 0
    THEN [kind |-> "raise", pos |-> pos, left |-> left, cur |-> Tombstone, acc |-> acc,
          exc |-> "RuntimeError: dictionary keys changed during iteration"]
    ELSE LET i == NextLive(conns, pos) IN
         IF sess[conns[i].client] = "closed"
         THEN list_all_tools(conns, sess, i, used, left - 1,
                             ResultSet(acc, conns[i].name,
                                       ListToolsReturn([kind |-> "fault", tools |-> << >>])))
         ELSE [kind |-> "await", pos |-> i, left |-> left - 1, cur |-> conns[i], acc |-> acc,
               exc |-> ""]

\* list(self.connectors.keys())
KeysList(d) ==
    LET live == SelectSeq(d, LAMBDA e : e # Tombstone)
    IN  [i \in 1..Len(live) |-> live[i].name]

\* close_all is not running; exc: how its last run ended ("": it returned)
NotClosing(exc) == [pc |-> "idle", names |-> << >>, added |-> FALSE, exc |-> exc]

\* mcp_client.py 210-213, 172-173: the loop of close_all over the names still to
\* go, up to the suspension of a remove_connector in session.close(), or its end
RECURSIVE close_all_loop(_, _, _)
close_all_loop(conns, sess, names) ==
    IF names = << >>
    THEN [kind |-> "return", session |-> sess, names |-> names]
    ELSE IF Head(names) \notin DictKeys(conns)
    THEN close_all_loop(conns, sess, Tail(names))
    ELSE [kind |-> "await",
          session |-> [sess EXCEPT ![DictGet(conns, Head(names))] = "closed"],
          names |-> names]

(***************************************************************************)
(* AIAgentDebug (src/ai_agent_debug.py).                                   *)
(***************************************************************************)
\* ai_agent_debug.py 65-79: the flat catalog, or the exception of a tool entry
\* that is no object
RECURSIVE _get_available_tools(_)

\* variant of the code: tools.insert(0, ...) provider by provider
get_available_tools_last_provider_first(all) ==
    IF all = << >> THEN [raised |-> FALSE, tools |-> << >>]
    ELSE LET rest == _get_available_tools(Tail(all))
             h == Head(all)
         IN  IF ~ h.list.wellformed \/ rest.raised
             THEN [raised |-> TRUE, tools |-> << >>]
             ELSE [raised |-> FALSE,
                   tools |-> rest.tools \o
                             [i \in 1..Len(h.list.tools) |->
                                 [name |-> h.list.tools[i], connector_name |-> h.name]]]

_get_available_tools(all) ==
    IF all = << >> THEN [raised |-> FALSE, tools |-> << >>]
    ELSE LET rest == _get_available_tools(Tail(all))
             h == Head(all)
         IN  IF ~ h.list.wellformed \/ rest.raised
             THEN [raised |-> TRUE, tools |-> << >>]
             ELSE [raised |-> FALSE,
                   tools |-> [i \in 1..Len(h.list.tools) |->
                                 [name |-> h.list.tools[i], connector_name |-> h.name]]
                             \o rest.tools]

\* ai_agent_debug.py 310, 319-324: the pieces of the summary text
NoToolsAvailable == <<[k |-> "text", v |-> "No tools are currently available."]>>
Title == [k |-> "text", v |-> "Available tools:"]
Heading(connector_name) == [k |-> "heading", v |-> connector_name]
ToolLine(tool) == [k |-> "tool", v |-> tool.name]
BlankLine == [k |-> "blank", v |-> ""]

RECURSIVE GroupTools(_, _)

\* variant of the code: connectors[tool.connector_name] = [] for every tool
GroupTools_reset_list(tools, groups) ==
    IF tools = << >> THEN groups
    ELSE LET tool == Head(tools)
             g0 == IF \E i \in 1..Len(groups) : groups[i].name = tool.connector_name
                   THEN [i \in 1..Len(groups) |->
                            IF groups[i].name = tool.connector_name
                            THEN [name |-> groups[i].name, tools |-> << >>] ELSE groups[i]]
                   ELSE Append(groups, [name |-> tool.connector_name, tools |-> << >>])
         IN  GroupTools(Tail(tools),
                        [i \in 1..Len(g0) |->
                            IF g0[i].name = tool.connector_name
                            THEN [name |-> g0[i].name, tools |-> Append(g0[i].tools, tool)]
                            ELSE g0[i]])

\* ai_agent_debug.py 313-317: the dict connectors, in insertion order
GroupTools(tools, groups) ==
    IF tools = << >> THEN groups
    ELSE LET tool == Head(tools)
             g0 == IF \E i \in 1..Len(groups) : groups[i].name = tool.connector_name
                   THEN groups
                   ELSE Append(groups, [name |-> tool.connector_name, tools |-> << >>])
         IN  GroupTools(Tail(tools),
                        [i \in 1..Len(g0) |->
                            IF g0[i].name = tool.connector_name
                            THEN [name |-> g0[i].name, tools |-> Append(g0[i].tools, tool)]
                            ELSE g0[i]])

\* ai_agent_debug.py 320-324: the text of the groups
RECURSIVE RenderGroups(_)
RenderGroups(groups) ==
    IF groups = << >> THEN << >>
    ELSE <<Heading(Head(groups).name)>>
            \o [i \in 1..Len(Head(groups).tools) |-> ToolLine(Head(groups).tools[i])]
            \o <<BlankLine>>
            \o RenderGroups(Tail(groups))

\* ai_agent_debug.py 309-326: the text get_available_tools_summary returns for
\* the flat catalog tools
SummaryText(tools) ==
    IF tools = << >> THEN NoToolsAvailable
    ELSE <<Title>> \o RenderGroups(GroupTools(tools, << >>))

\* variant of the code: "success": result.error is not None
Outcome_success_inverted(tc, r) ==
    [tool_call |-> tc, success |-> (r.error # None), result |-> Some(r), error |-> r.error]

\* ai_agent_debug.py 201-206
Outcome(tc, r) ==
    [tool_call |-> tc, success |-> (r.error = None), result |-> Some(r), error |-> r.error]

\* ai_agent_debug.py 208-215
FailedOutcome(tc, e) ==
    [tool_call |-> tc, success |-> FALSE, result |-> None, error |-> Some(e)]

\* history: call i is handed to call_tool_on_connector; known: its connector
\* name is registered at that moment
Dispatched(conns, calls, i) ==
    [idx |-> i, known |-> calls[i].connector_name \in DictKeys(conns)]

RECURSIVE _execute_tool_calls(_, _, _, _, _, _)

\* variant of the code: the first call that raises ends the loop
execute_stop_on_error(conns, sess, calls, i, res, dlog) ==
    IF i > Len(calls)
    THEN [results |-> res, inflight |-> {}, dlog |-> dlog]
    ELSE LET d == call_tool_on_connector(conns, sess, calls[i].connector_name) IN
         IF d.kind = "raise"
         THEN [results |-> Append(res, FailedOutcome(calls[i], d.exc)), inflight |-> {},
               dlog |-> Append(dlog, Dispatched(conns, calls, i))]
         ELSE IF d.kind = "return"
         THEN _execute_tool_calls(conns, sess, calls, i + 1,
                                  Append(res, Outcome(calls[i], d.result)),
                                  Append(dlog, Dispatched(conns, calls, i)))
         ELSE [results |-> res, inflight |-> {[idx |-> i, client |-> d.client]},
               dlog |-> Append(dlog, Dispatched(conns, calls, i))]

\* variant of the code: a call that raises is logged and leaves no outcome
execute_drop_failed(conns, sess, calls, i, res, dlog) ==
    IF i > Len(calls)
    THEN [results |-> res, inflight |-> {}, dlog |-> dlog]
    ELSE LET d == call_tool_on_connector(conns, sess, calls[i].connector_name) IN
         IF d.kind = "raise"
         THEN _execute_tool_calls(conns, sess, calls, i + 1, res,
                                  Append(dlog, Dispatched(conns, calls, i)))
         ELSE IF d.kind = "return"
         THEN _execute_tool_calls(conns, sess, calls, i + 1,
                                  Append(res, Outcome(calls[i], d.result)),
                                  Append(dlog, Dispatched(conns, calls, i)))
         ELSE [results |-> res, inflight |-> {[idx |-> i, client |-> d.client]},
               dlog |-> Append(dlog, Dispatched(conns, calls, i))]

\* variant of the code: a call that fails at once is tried a second time
execute_retry_failed(conns, sess, calls, i, res, dlog) ==
    IF i > Len(calls)
    THEN [results |-> res, inflight |-> {}, dlog |-> dlog]
    ELSE LET d == call_tool_on_connector(conns, sess, calls[i].connector_name) IN
         IF d.kind = "raise"
         THEN _execute_tool_calls(conns, sess, calls, i + 1,
                                  Append(res, FailedOutcome(calls[i], d.exc)),
                                  dlog \o <<Dispatched(conns, calls, i),
                                            Dispatched(conns, calls, i)>>)
         ELSE IF d.kind = "return"
         THEN _execute_tool_calls(conns, sess, calls, i + 1,
                                  Append(res, Outcome(calls[i], d.result)),
                                  dlog \o <<Dispatched(conns, calls, i),
                                            Dispatched(conns, calls, i)>>)
         ELSE [results |-> res, inflight |-> {[idx |-> i, client |-> d.client]},
               dlog |-> Append(dlog, Dispatched(conns, calls, i))]

\* variant of the code: the calls are posted together (asyncio.gather) and answered in any order
execute_gather(conns, sess, calls, i, res, dlog) ==
    IF i # 1
    THEN [results |-> res, inflight |-> {}, dlog |-> dlog]
    ELSE LET open == {j \in 1..Len(calls) :
                         call_tool_on_connector(conns, sess, calls[j].connector_name).kind
                             = "await"}
         IN  [results |-> res,
              inflight |-> {[idx |-> j,
                             client |-> call_tool_on_connector(
                                            conns, sess, calls[j].connector_name).client] :
                            j \in open},
              dlog |-> [j \in 1..Len(calls) |-> Dispatched(conns, calls, j)]]

\* ai_agent_debug.py 187-217: the loop of _execute_tool_calls from call i up to
\* its next suspension (a tools/call posted) or its end
_execute_tool_calls(conns, sess, calls, i, res, dlog) ==
    IF i > Len(calls)
    THEN [results |-> res, inflight |-> {}, dlog |-> dlog]
    ELSE LET d == call_tool_on_connector(conns, sess, calls[i].connector_name) IN
         IF d.kind = "raise"
         THEN _execute_tool_calls(conns, sess, calls, i + 1,
                                  Append(res, FailedOutcome(calls[i], d.exc)),
                                  Append(dlog, Dispatched(conns, calls, i)))
         ELSE IF d.kind = "return"
         THEN _execute_tool_calls(conns, sess, calls, i + 1,
                                  Append(res, Outcome(calls[i], d.result)),
                                  Append(dlog, Dispatched(conns, calls, i)))
         ELSE [results |-> res, inflight |-> {[idx |-> i, client |-> d.client]},
               dlog |-> Append(dlog, Dispatched(conns, calls, i))]

NoToolsNeeded == <<"No tools were needed for this request.">>
ErrorGeneratingSummary(cause) == <<"Error generating summary: ", cause>>

SummaryAnswers ==
    {[raised |-> TRUE, cause |-> "backend unavailable", text |-> << >>],
     [raised |-> FALSE, cause |-> "", text |-> <<"narrative">>]}

\* ai_agent_debug.py 251-265
_generate_summary(resp) ==
    IF resp.raised THEN ErrorGeneratingSummary(resp.cause) ELSE resp.text

\* variant of the code: a failed summary discards the outcomes
Result_discarding(r, calls, res, summ) ==
    [status |-> "returned", success |-> TRUE, reasoning |-> r, tool_calls |-> calls,
     results |-> IF summ # << >> /\ summ[1] = "Error generating summary: "
                 THEN << >> ELSE res,
     summary |-> summ, exc |-> ""]

\* the dict process_request returns (ai_agent_debug.py 283-289, 297-303)
Result(r, calls, res, summ) ==
    [status |-> "returned", success |-> TRUE, reasoning |-> r, tool_calls |-> calls,
     results |-> res, summary |-> summ, exc |-> ""]

\* process_request has raised exc instead of returning
Raised(exc) ==
    [status |-> "raised", success |-> FALSE, reasoning |-> << >>, tool_calls |-> << >>,
     results |-> << >>, summary |-> << >>, exc |-> exc]

NotReturned == [Raised("") EXCEPT !.status = "none"]

\* the values of an api key argument: None, "", a key
Credentials == {None, Some(""), Some("gemini-key"), Some("anthropic-key")}

\* variant of the code: `if api_key is not None`
Truthy_not_none(key) == key # None

\* the truth value of an Optional[str] in an if
Truthy(key) == key # None /\ key[1] # ""

NoAgent == [state |-> "new", gemini_model |-> FALSE, anthropic_client |-> FALSE]

\* ai_agent_debug.py 50-63: the attributes __init__ sets (TRUE: a client
\* object, FALSE: None), or the ValueError it raises
Construct(gemini_api_key, anthropic_api_key) ==
    IF ~ Truthy(gemini_api_key) /\ ~ Truthy(anthropic_api_key)
    THEN [state |-> "raised", gemini_model |-> FALSE, anthropic_client |-> FALSE]
    ELSE [state |-> "ok", gemini_model |-> Truthy(gemini_api_key),
          anthropic_client |-> Truthy(anthropic_api_key)]

\* ai_agent_debug.py 130-143: the backend _select_tools calls
SelectionBackend(a) ==
    IF a.gemini_model THEN "gemini" ELSE IF a.anthropic_client THEN "anthropic" ELSE "none"

\* variant of the code: _generate_summary tests anthropic_client first
SummaryBackend_anthropic_first(a) ==
    IF a.anthropic_client THEN "anthropic" ELSE IF a.gemini_model THEN "gemini" ELSE "none"

\* ai_agent_debug.py 252-261: the backend _generate_summary calls
SummaryBackend(a) ==
    IF a.gemini_model THEN "gemini" ELSE IF a.anthropic_client THEN "anthropic" ELSE "none"

(***************************************************************************)
(* The state after construction: an empty manager, an agent with one       *)
(* backend configured, no request running.                                 *)
(***************************************************************************)
\* the locals of a process_request invocation that has not been started
NotStarted ==
    [pc |-> "idle", catPos |-> 0, catUsed |-> 0, catLeft |-> 0, catCur |-> Tombstone,
     all_tools |-> << >>, available_tools |-> << >>, llmResponse |-> NoAnswer,
     reasoning |-> << >>, tool_calls |-> << >>, results |-> << >>, inflight |-> {},
     returned |-> NotReturned, phaseLog |-> << >>, llmCalls |-> 0, backendLog |-> << >>,
     catalogQueries |-> 0, dispatchLog |-> << >>, answerRead |-> NoAnswer,
     listLog |-> << >>, provLog |-> << >>]

NoRequest ==
    /\ suspended = NotStarted
    /\ running = 1
    /\ connectors = << >>
    /\ session = << >>
    /\ endpoint = << >>
    /\ removedAbsent = {}
    /\ delPending = [name \in ConnectorNames |-> 0]
    /\ delRaised = {}
    /\ closeAll = NotClosing("")
    /\ pc = "idle"
    /\ catPos = 0
    /\ catUsed = 0
    /\ catLeft = 0
    /\ catCur = Tombstone
    /\ all_tools = << >>
    /\ available_tools = << >>
    /\ llmResponse = NoAnswer
    /\ reasoning = << >>
    /\ tool_calls = << >>
    /\ results = << >>
    /\ inflight = {}
    /\ returned = NotReturned
    /\ phaseLog = << >>
    /\ llmCalls = 0
    /\ backendLog = << >>
    /\ catalogQueries = 0
    /\ dispatchLog = << >>
    /\ answerRead = NoAnswer
    /\ listLog = << >>
    /\ provLog = << >>

\* an agent constructed with a Gemini key, on an empty manager
Init ==
    /\ credentials = <<Some("gemini-key"), None>>
    /\ agent = Construct(Some("gemini-key"), None)
    /\ NoRequest

\* before the construction of the agent
InitNew ==
    /\ credentials = <<None, None>>
    /\ agent = NoAgent
    /\ NoRequest

\* ai_agent_debug.py 40-63: AIAgentDebug(connector_manager, gemini_api_key,
\* anthropic_api_key)
__init__(gemini_api_key, anthropic_api_key) ==
    /\ agent.state = "new"
    /\ credentials' = <<gemini_api_key, anthropic_api_key>>
    /\ agent' = Construct(gemini_api_key, anthropic_api_key)
    /\ UNCHANGED <<taskVars, regVars, reqVars, histVars>>

(***************************************************************************)
(* The caller's operations on the registry.                                *)
(***************************************************************************)
\* mcp_client.py 154-168: MCPClient(base_url), __aenter__, connectors[name] = client
add_connector(name, base_url) ==
    /\ Len(session) < MaxClients
    /\ session' = Append(session, "open")
    /\ endpoint' = Append(endpoint, base_url)
    /\ connectors' = DictSet(connectors, name, Len(session) + 1)
    /\ closeAll' = [closeAll EXCEPT !.added = (closeAll.pc = "await")]
    /\ UNCHANGED <<delPending, delRaised, removedAbsent, agentVars, taskVars, reqVars, histVars>>

\* mcp_client.py 170-173: remove_connector up to its suspension in session.close()
remove_connector(name) ==
    /\ name \in DictKeys(connectors)
    /\ delPending[name] < MaxRemovals
    /\ session' = [session EXCEPT ![DictGet(connectors, name)] = "closed"]
    /\ delPending' = [delPending EXCEPT ![name] = @ + 1]
    /\ UNCHANGED <<connectors, endpoint, delRaised, closeAll, removedAbsent, agentVars, taskVars, reqVars, histVars>>

\* mcp_client.py 174: del self.connectors[name] (a KeyError when name is gone)
remove_connector_del(name) ==
    /\ delPending[name] > 0
    /\ delPending' = [delPending EXCEPT ![name] = @ - 1]
    /\ IF name \in DictKeys(connectors)
       THEN /\ connectors' = DictDel(connectors, name)
            /\ UNCHANGED delRaised
       ELSE /\ delRaised' = delRaised \cup {name}
            /\ UNCHANGED connectors
    /\ UNCHANGED <<session, endpoint, closeAll, removedAbsent, agentVars, taskVars, reqVars, histVars>>

\* mcp_client.py 170-172: remove_connector with a name that is not registered:
\* the if is false and the call returns None
remove_connector_absent(name) ==
    /\ name \notin DictKeys(connectors)
    /\ removedAbsent' = removedAbsent \cup {name}
    /\ UNCHANGED <<connectors, session, endpoint, delPending, delRaised, closeAll, agentVars, taskVars, reqVars, histVars>>

\* close_all has run to `lp`; added: an add_connector ran since it started
CloseAllStep(lp, added) ==
    /\ session' = lp.session
    /\ closeAll' = IF lp.kind = "await"
                   THEN [pc |-> "await", names |-> lp.names, added |-> added, exc |-> ""]
                   ELSE NotClosing("")

\* mcp_client.py 210-213: close_all from its call to its first suspension.  Its
\* callers (the finally blocks of main.py, the shutdown handler of api_server.py)
\* call it when no request is being processed.
close_all ==
    /\ closeAll.pc = "idle"
    /\ pc = "idle"
    /\ CloseAllStep(close_all_loop(connectors, session, KeysList(connectors)), FALSE)
    /\ UNCHANGED <<connectors, endpoint, delPending, delRaised, removedAbsent, agentVars, taskVars, reqVars, histVars>>

\* mcp_client.py 174, 212-213: the remove_connector of close_all resumes at its
\* del (a KeyError when the name is gone meanwhile ends close_all) and the loop
\* goes on
close_all_del ==
    /\ closeAll.pc = "await"
    /\ IF Head(closeAll.names) \in DictKeys(connectors)
       THEN /\ connectors' = DictDel(connectors, Head(closeAll.names))
            /\ CloseAllStep(close_all_loop(DictDel(connectors, Head(closeAll.names)),
                                            session, Tail(closeAll.names)),
                            closeAll.added)
       ELSE /\ closeAll' = NotClosing("KeyError")
            /\ UNCHANGED <<connectors, session>>
    /\ UNCHANGED <<endpoint, delPending, delRaised, removedAbsent, agentVars, taskVars, reqVars, histVars>>

(***************************************************************************)
(* process_request (ai_agent_debug.py 267-303), one action per run between *)
(* two suspensions.                                                        *)
(***************************************************************************)
\* _get_available_tools and the selection prompt, once list_all_tools has run to
\* `it`; an exception of list_all_tools or of _get_available_tools leaves
\* process_request, which has no handler around them
CatalogStep(it) ==
    /\ catPos' = it.pos
    /\ catLeft' = it.left
    /\ catCur' = it.cur
    /\ all_tools' = IF it.kind = "raise" THEN << >> ELSE it.acc
    /\ IF it.kind = "await"
       THEN /\ pc' = "list_tools"
            /\ UNCHANGED <<available_tools, returned, llmCalls, backendLog>>
            /\ phaseLog' = IF phaseLog = << >> THEN <<"CATALOGING">> ELSE phaseLog
       ELSE IF it.kind = "raise"
       THEN /\ pc' = "raised"
            /\ returned' = Raised(it.exc)
            /\ UNCHANGED <<available_tools, llmCalls, backendLog>>
            /\ phaseLog' = IF phaseLog = << >> THEN <<"CATALOGING">> ELSE phaseLog
       ELSE IF _get_available_tools(it.acc).raised
       THEN /\ pc' = "raised"
            /\ returned' = Raised("AttributeError: tool entry has no attribute 'get'")
            /\ UNCHANGED <<available_tools, llmCalls, backendLog>>
            /\ phaseLog' = IF phaseLog = << >> THEN <<"CATALOGING">> ELSE phaseLog
       ELSE /\ pc' = "select"
            /\ available_tools' = _get_available_tools(it.acc).tools
            /\ llmCalls' = llmCalls + 1
            /\ backendLog' = Append(backendLog, SelectionBackend(agent))
            /\ phaseLog' = (IF phaseLog = << >> THEN <<"CATALOGING">> ELSE phaseLog)
                               \o <<"SELECTING">>
            /\ UNCHANGED returned

\* ai_agent_debug.py 277-280, 120-122, mcp_client.py 205-207.  No caller starts
\* a request on a manager whose close_all is running.
process_request ==
    /\ agent.state = "ok"
    /\ pc = "idle"
    /\ closeAll.pc = "idle"
    /\ catUsed' = DictUsed(connectors)
    /\ catalogQueries' = catalogQueries + 1
    /\ CatalogStep(list_all_tools(connectors, session, 0, DictUsed(connectors),
                                  DictUsed(connectors), << >>))
    /\ UNCHANGED <<agentVars, taskVars, regVars, llmResponse, reasoning, tool_calls, results, inflight,
                   dispatchLog, answerRead, listLog, provLog>>

\* mcp_client.py 112-129, 207: a provider answers tools/list (a session closed
\* meanwhile fails the exchange) and list_all_tools goes on
list_tools_answer(ans) ==
    /\ pc = "list_tools"
    /\ session[catCur.client] = "closed" => ans.kind = "fault"
    /\ CatalogStep(list_all_tools(connectors, session, catPos, catUsed, catLeft,
                                  ResultSet(all_tools, catCur.name, ListToolsReturn(ans))))
    /\ listLog' = Append(listLog, [name |-> catCur.name, kind |-> ans.kind,
                                   tools |-> ans.tools])
    /\ UNCHANGED <<agentVars, taskVars, regVars, catUsed, llmResponse, reasoning, tool_calls, results, inflight,
                   catalogQueries, dispatchLog, answerRead, provLog>>

\* ai_agent_debug.py 129-143: the backend answers the selection prompt
backend_answer(ans) ==
    /\ pc = "select"
    /\ pc' = "select_resume"
    /\ llmResponse' = ans
    /\ available_tools' = << >>
    /\ all_tools' = << >>
    /\ listLog' = << >>
    /\ UNCHANGED <<agentVars, taskVars, regVars, catPos, catUsed, catLeft, catCur, reasoning,
                   tool_calls, results, inflight, returned, phaseLog, llmCalls, backendLog,
                   catalogQueries, dispatchLog, answerRead, provLog>>

\* the executor has run to `ex`: it is suspended in a tools/call, or it has
\* returned and the summary prompt goes to the backend (ai_agent_debug.py 292-295)
ExecStep(ex, pending) ==
    /\ results' = ex.results
    /\ inflight' = pending \cup ex.inflight
    /\ dispatchLog' = ex.dlog
    /\ IF pending \cup ex.inflight # {}
       THEN /\ pc' = "in_flight"
            /\ UNCHANGED <<llmCalls, backendLog>>
            /\ phaseLog' = IF phaseLog[Len(phaseLog)] = "EXECUTING"
                           THEN phaseLog ELSE Append(phaseLog, "EXECUTING")
       ELSE /\ pc' = "summary"
            /\ llmCalls' = llmCalls + 1
            /\ backendLog' = Append(backendLog, SummaryBackend(agent))
            /\ phaseLog' = (IF phaseLog[Len(phaseLog)] = "EXECUTING"
                            THEN phaseLog ELSE Append(phaseLog, "EXECUTING"))
                               \o <<"SUMMARIZING">>

\* variant of the code: the executor and the summary run also without calls
not_tool_calls_never(calls) == FALSE

\* ai_agent_debug.py 282: if not tool_calls
not_tool_calls(calls) == calls = << >>

\* ai_agent_debug.py 145-185, 280-292: _select_tools reads the answer and returns;
\* process_request returns at once without calls, or starts the executor
select_resume ==
    /\ pc = "select_resume"
    /\ \E sel \in {ExtractIntent(llmResponse)} :
       /\ reasoning' = sel.reasoning
       /\ tool_calls' = sel.tool_calls
       /\ IF not_tool_calls(sel.tool_calls)
          THEN /\ pc' = "done"
               /\ returned' = Result(sel.reasoning, << >>, << >>, NoToolsNeeded)
               /\ phaseLog' = Append(phaseLog, "DONE")
               /\ UNCHANGED <<results, inflight, dispatchLog, llmCalls, backendLog>>
          ELSE /\ \E ex \in {_execute_tool_calls(connectors, session, sel.tool_calls, 1,
                                                    << >>, << >>)} : ExecStep(ex, {})
               /\ UNCHANGED returned
    /\ llmResponse' = NoAnswer
    /\ answerRead' = llmResponse
    /\ UNCHANGED <<agentVars, taskVars, regVars, catPos, catUsed, catLeft, catCur, all_tools, available_tools,
                   catalogQueries, listLog, provLog>>

\* variant of the code: a failed exchange closes the session of the client
call_tool_session_close_on_fault(sess, client, ans) ==
    IF ans.kind = "fault" THEN [sess EXCEPT ![client] = "closed"] ELSE sess

\* mcp_client.py 70-94: the sessions after call_tool has its answer: `async with
\* self.session.post(...)` releases the response, the handler builds a result,
\* and self.session is neither closed nor replaced
call_tool_session(sess, client, ans) == sess

\* mcp_client.py 75-94, ai_agent_debug.py 201-206: a provider answers the tools/call
\* in flight (a session closed meanwhile fails the exchange); the outcome is
\* recorded and the loop goes on with the next call
call_tool_answer(r, ans) ==
    /\ pc = "in_flight"
    /\ r \in inflight
    /\ session[r.client] = "closed" => ans.kind = "fault"
    /\ provLog' = Append(provLog, [idx |-> r.idx, kind |-> ans.kind, message |-> ans.message,
                                   closed |-> session[r.client] = "closed"])
    /\ ExecStep(_execute_tool_calls(connectors, session, tool_calls, r.idx + 1,
                                    Append(results, Outcome(tool_calls[r.idx], CallToolReturn(ans))),
                                    dispatchLog),
                inflight \ {r})
    /\ session' = call_tool_session(session, r.client, ans)
    /\ UNCHANGED <<agentVars, taskVars, connectors, endpoint, delPending, delRaised, closeAll, removedAbsent,
                   catPos, catUsed, catLeft, catCur, all_tools, available_tools, llmResponse,
                   reasoning, tool_calls, returned, catalogQueries, answerRead, listLog>>

\* ai_agent_debug.py 251-265, 295-303: the backend answers the summary prompt
\* (or the call raises) and process_request returns
summary_answer(ans) ==
    /\ pc = "summary"
    /\ pc' = "done"
    /\ llmResponse' = ans
    /\ returned' = Result(reasoning, tool_calls, results, _generate_summary(ans))
    /\ phaseLog' = Append(phaseLog, "DONE")
    /\ UNCHANGED <<agentVars, taskVars, regVars, catPos, catUsed, catLeft, catCur, all_tools, available_tools,
                   reasoning, tool_calls, results, inflight, llmCalls, backendLog, catalogQueries,
                   dispatchLog, answerRead, listLog, provLog>>

\* the caller has the result (or the exception); the agent is free for the next request
next_request ==
    /\ pc \in {"done", "raised"}
    /\ pc' = "idle"
    /\ catPos' = 0
    /\ catUsed' = 0
    /\ catLeft' = 0
    /\ catCur' = Tombstone
    /\ all_tools' = << >>
    /\ available_tools' = << >>
    /\ llmResponse' = NoAnswer
    /\ reasoning' = << >>
    /\ tool_calls' = << >>
    /\ results' = << >>
    /\ inflight' = {}
    /\ returned' = NotReturned
    /\ phaseLog' = << >>
    /\ llmCalls' = 0
    /\ backendLog' = << >>
    /\ catalogQueries' = 0
    /\ dispatchLog' = << >>
    /\ answerRead' = NoAnswer
    /\ listLog' = << >>
    /\ provLog' = << >>
    /\ UNCHANGED <<agentVars, taskVars, regVars>>

(***************************************************************************)
(* get_available_tools_summary (ai_agent_debug.py 305-326): the catalog    *)
(* query of _get_available_tools, then the text.                           *)
(***************************************************************************)
\* list_all_tools has run to `it`: it is suspended in a tools/list, or it has
\* raised, or _get_available_tools flattens its result and the text is returned
ToolsSummaryStep(it) ==
    /\ catPos' = it.pos
    /\ catLeft' = it.left
    /\ catCur' = it.cur
    /\ all_tools' = IF it.kind = "raise" THEN << >> ELSE it.acc
    /\ IF it.kind = "await"
       THEN /\ pc' = "summary_list_tools"
            /\ UNCHANGED <<available_tools, returned>>
       ELSE IF it.kind = "raise"
       THEN /\ pc' = "raised"
            /\ returned' = Raised(it.exc)
            /\ UNCHANGED available_tools
       ELSE IF _get_available_tools(it.acc).raised
       THEN /\ pc' = "raised"
            /\ returned' = Raised("AttributeError: tool entry has no attribute 'get'")
            /\ UNCHANGED available_tools
       ELSE /\ pc' = "done"
            /\ available_tools' = _get_available_tools(it.acc).tools
            /\ returned' = [Raised("") EXCEPT
                               !.status = "returned", !.success = TRUE,
                               !.summary = SummaryText(_get_available_tools(it.acc).tools)]

\* ai_agent_debug.py 305-307, 65-68, mcp_client.py 205-207
get_available_tools_summary ==
    /\ agent.state = "ok"
    /\ pc = "idle"
    /\ closeAll.pc = "idle"
    /\ catUsed' = DictUsed(connectors)
    /\ ToolsSummaryStep(list_all_tools(connectors, session, 0, DictUsed(connectors),
                                       DictUsed(connectors), << >>))
    /\ UNCHANGED <<agentVars, taskVars, regVars, llmResponse, reasoning, tool_calls, results,
                   inflight, histVars>>

\* mcp_client.py 112-129, 207: a provider answers the tools/list of the summary
tools_summary_answer(ans) ==
    /\ pc = "summary_list_tools"
    /\ session[catCur.client] = "closed" => ans.kind = "fault"
    /\ ToolsSummaryStep(list_all_tools(connectors, session, catPos, catUsed, catLeft,
                                       ResultSet(all_tools, catCur.name, ListToolsReturn(ans))))
    /\ UNCHANGED <<agentVars, taskVars, regVars, catUsed, llmResponse, reasoning, tool_calls,
                   results, inflight, histVars>>

(***************************************************************************)
(* Two process_request invocations on one agent (api_server.py serves each *)
(* POST /process in a task of its own, on the one agent object).  Every    *)
(* variable of reqVars is a local of process_request, _select_tools,       *)
(* _execute_tool_calls or list_all_tools, so each invocation has its own;  *)
(* the agent object holds connector_manager, model, gemini_model and       *)
(* anthropic_client only (ai_agent_debug.py 47-60).  The variables hold    *)
(* the locals of the invocation the event loop runs, `suspended` those of  *)
(* the other one.                                                          *)
(***************************************************************************)
\* the locals of the running invocation
Frame ==
    [pc |-> pc, catPos |-> catPos, catUsed |-> catUsed, catLeft |-> catLeft,
     catCur |-> catCur, all_tools |-> all_tools, available_tools |-> available_tools,
     llmResponse |-> llmResponse, reasoning |-> reasoning, tool_calls |-> tool_calls,
     results |-> results, inflight |-> inflight, returned |-> returned,
     phaseLog |-> phaseLog, llmCalls |-> llmCalls, backendLog |-> backendLog,
     catalogQueries |-> catalogQueries, dispatchLog |-> dispatchLog,
     answerRead |-> answerRead, listLog |-> listLog, provLog |-> provLog]

\* variant of the code: results is an attribute of the agent (self.results),
\* which the invocation that is resumed finds as the other one left it
Locals_results_on_agent(own, other) == [own EXCEPT !.results = other.results]

\* ai_agent_debug.py 189, 277-295: what an invocation that is resumed finds in
\* its locals: what it left there itself
Locals(own, other) == own

\* the event loop leaves the running invocation at its await and goes on with
\* the other one
switch_task ==
    /\ suspended' = Frame
    /\ running' = 3 - running
    /\ \E f \in {Locals(suspended, Frame)} :
        /\ pc' = f.pc
        /\ catPos' = f.catPos
        /\ catUsed' = f.catUsed
        /\ catLeft' = f.catLeft
        /\ catCur' = f.catCur
        /\ all_tools' = f.all_tools
        /\ available_tools' = f.available_tools
        /\ llmResponse' = f.llmResponse
        /\ reasoning' = f.reasoning
        /\ tool_calls' = f.tool_calls
        /\ results' = f.results
        /\ inflight' = f.inflight
        /\ returned' = f.returned
        /\ phaseLog' = f.phaseLog
        /\ llmCalls' = f.llmCalls
        /\ backendLog' = f.backendLog
        /\ catalogQueries' = f.catalogQueries
        /\ dispatchLog' = f.dispatchLog
        /\ answerRead' = f.answerRead
        /\ listLog' = f.listLog
        /\ provLog' = f.provLog
    /\ UNCHANGED <<agentVars, regVars>>

Next ==
    \/ \E name \in ConnectorNames : add_connector(name, Reachable)
    \/ \E name \in {n \in ConnectorNames : delPending[n] = 0} : remove_connector(name)
    \/ \E name \in ConnectorNames : remove_connector_del(name)
    \/ close_all
    \/ close_all_del
    \/ process_request
    \/ \E ans \in ListAnswers : list_tools_answer(ans)
    \/ \E ans \in BackendAnswers : backend_answer(ans)
    \/ select_resume
    \/ \E r \in inflight, ans \in ToolAnswers : call_tool_answer(r, ans)
    \/ \E ans \in SummaryAnswers : summary_answer(ans)
    \/ next_request

Spec == Init /\ [][Next]_vars

(***************************************************************************)
(* The same program when every call that is awaited is answered: the       *)
(* provider answers tools/list and tools/call (with a result or a fault),  *)
(* the reasoning backend answers or raises, and the event loop resumes a   *)
(* coroutine whose await has completed.  The code sets no timeout of its   *)
(* own on any of these awaits (mcp_client.py 70-77, 104-111,               *)
(* ai_agent_debug.py 131-143, 253-261).  Nothing obliges a caller to start *)
(* a request or to change the registry.                                    *)
(***************************************************************************)
CallsAnswered ==
    /\ WF_vars(\E ans \in ListAnswers : list_tools_answer(ans))
    /\ WF_vars(\E ans \in BackendAnswers : backend_answer(ans))
    /\ WF_vars(select_resume)
    /\ WF_vars(\E r \in inflight, ans \in ToolAnswers : call_tool_answer(r, ans))
    /\ WF_vars(\E ans \in SummaryAnswers : summary_answer(ans))

FairSpec == Spec /\ CallsAnswered

(***************************************************************************)
(* Two invocations of process_request on one agent and one manager, which  *)
(* connectors are added to.  The backend answers with a selection of two   *)
(* calls, with a selection of one call, or raises; a provider answers with *)
(* a result or not at all (a transport fault).                             *)
(***************************************************************************)
Selections ==
    {[raised |-> FALSE, cause |-> "", text |-> <<Body(ListDoc(Some("two steps needed"), l))>>] :
        l \in {<<WellFormedItem("wf", "start_workflow"), WellFormedItem("db", "register_actor")>>,
               <<WellFormedItem("db", "register_actor")>>}}
    \cup {[raised |-> TRUE, cause |-> "backend unavailable", text |-> << >>]}

NextTwoRequests ==
    \/ \E name \in ConnectorNames : add_connector(name, Reachable)
    \/ process_request
    \/ \E ans \in {a \in ListAnswers : a.kind = "fault" \/ Len(a.tools) = 1} :
          list_tools_answer(ans)
    \/ \E ans \in Selections : backend_answer(ans)
    \/ select_resume
    \/ \E r \in inflight, ans \in {a \in ToolAnswers : a.kind \in {"ok", "fault"}} :
          call_tool_answer(r, ans)
    \/ \E ans \in {a \in SummaryAnswers : ~ a.raised} : summary_answer(ans)
    \/ switch_task

SpecTwoRequests == Init /\ [][NextTwoRequests]_vars

(***************************************************************************)
(* The tools summary of one agent, on a manager that connectors are added  *)
(* to and removed from.                                                    *)
(***************************************************************************)
NextToolsSummary ==
    \/ \E name \in ConnectorNames : add_connector(name, Reachable)
    \/ \E name \in {n \in ConnectorNames : delPending[n] = 0} : remove_connector(name)
    \/ \E name \in ConnectorNames : remove_connector_del(name)
    \/ get_available_tools_summary
    \/ \E ans \in ListAnswers : tools_summary_answer(ans)
    \/ next_request

SpecToolsSummary == Init /\ [][NextToolsSummary]_vars

(***************************************************************************)
(* The agent from its construction on, with every combination of keys, on  *)
(* a manager that connectors are added to.                                 *)
(***************************************************************************)
NextAgent ==
    \/ \E g \in Credentials \ {Some("anthropic-key")},
          a \in Credentials \ {Some("gemini-key")} : __init__(g, a)
    \/ \E name \in ConnectorNames : add_connector(name, Reachable)
    \/ process_request
    \/ \E ans \in ListAnswers : list_tools_answer(ans)
    \/ \E ans \in BackendAnswers : backend_answer(ans)
    \/ select_resume
    \/ \E r \in inflight, ans \in ToolAnswers : call_tool_answer(r, ans)
    \/ \E ans \in SummaryAnswers : summary_answer(ans)
    \/ next_request

SpecAgent == InitNew /\ [][NextAgent]_vars

(***************************************************************************)
(* The manager alone, with every call a caller can make on it: also an     *)
(* add_connector whose base_url nothing listens on, a remove_connector of  *)
(* a name that is not registered, and a remove_connector of a name called  *)
(* while another one for the same name is suspended in session.close().    *)
(* In Spec the first is covered by the faults a provider may answer with   *)
(* at any time, the second changes nothing of the program's state, and     *)
(* one remove_connector per name is suspended at a time.                   *)
(***************************************************************************)
NextRegistry ==
    \/ \E name \in ConnectorNames, base_url \in {Reachable, Unreachable} :
          add_connector(name, base_url)
    \/ \E name \in ConnectorNames : remove_connector(name)
    \/ \E name \in ConnectorNames : remove_connector_del(name)
    \/ \E name \in ConnectorNames : remove_connector_absent(name)
    \/ close_all
    \/ close_all_del

SpecRegistry == Init /\ [][NextRegistry]_vars

(***************************************************************************)
(* Properties.                                                             *)
(***************************************************************************)
Range(q) == {q[i] : i \in 1..Len(q)}

\* the executor has returned: every call of the batch has been gone through
ExecutorReturned == tool_calls # << >> /\ pc \in {"summary", "done"}

AllDispatched == \A i \in 1..Len(tool_calls) : \E j \in 1..Len(dispatchLog) : dispatchLog[j].idx = i

\* C1 (partial-failure isolation): whatever calls of a batch fail, every call of
\* the batch is still dispatched, a call whose provider answers with a result
\* has a successful outcome, no failure ends the request, and the request goes
\* on to the summarizing phase.
C1_PartialFailureIsolation ==
    /\ tool_calls # << >> => pc \in {"in_flight", "summary", "done"}
    /\ pc = "in_flight" => inflight # {}
    /\ \A j \in 1..Len(provLog) :
          provLog[j].kind = "ok" =>
              /\ Len(results) >= provLog[j].idx
              /\ results[provLog[j].idx].success
    /\ ExecutorReturned =>
          /\ AllDispatched
          /\ "SUMMARIZING" \in Range(phaseLog)

\* call 1 of a batch of two failed, call 2 succeeded, and the request completed
C1_Witness ==
    /\ pc = "done"
    /\ Len(tool_calls) = 2
    /\ Len(results) = 2
    /\ ~ results[1].success
    /\ results[2].success
    /\ "SUMMARIZING" \in Range(phaseLog)

\* C2 (outcome ordering): the outcomes recorded so far are those of the first
\* calls, in call order; when the executor has returned there is exactly one
\* outcome per call, and the returned record has as many results as tool calls.
C2_OutcomeOrdering ==
    /\ Len(results) <= Len(tool_calls)
    /\ \A i \in 1..Len(results) : results[i].tool_call = tool_calls[i]
    /\ ExecutorReturned => Len(results) = Len(tool_calls)
    /\ returned.status = "returned" =>
          /\ Len(returned.results) = Len(returned.tool_calls)
          /\ \A i \in 1..Len(returned.results) :
                returned.results[i].tool_call = returned.tool_calls[i]

\* two different calls, the first succeeded and the second failed
C2_Witness ==
    /\ returned.status = "returned"
    /\ Len(returned.results) = 2
    /\ returned.tool_calls[1] # returned.tool_calls[2]
    /\ returned.results[1].success
    /\ ~ returned.results[2].success

\* C3 (process_request never raises): whatever the providers and the backend
\* answer, no exception leaves process_request.
C3_NeverRaises == returned.status # "raised"

\* C4 (zero-call short-circuit): a request whose extraction gave no calls
\* returns no tool calls, no results and the fixed summary; it has dispatched
\* nothing, called the backend once and skipped EXECUTING and SUMMARIZING.
C4_ZeroCallShortCircuit ==
    (pc = "done" /\ tool_calls = << >>) =>
        /\ returned.status = "returned"
        /\ returned.tool_calls = << >>
        /\ returned.results = << >>
        /\ returned.summary = <<"No tools were needed for this request.">>
        /\ dispatchLog = << >>
        /\ provLog = << >>
        /\ inflight = {}
        /\ llmCalls = 1
        /\ phaseLog = <<"CATALOGING", "SELECTING", "DONE">>

\* a well-formed answer with an empty tool_calls list has been processed
C4_Witness ==
    /\ pc = "done"
    /\ tool_calls = << >>
    /\ returned.reasoning = <<"two steps needed">>
    /\ DictKeys(connectors) # {}

\* C5 (summarization failure keeps the results): when the reasoning call of the
\* summarizing phase raised, the returned record has success true, the
\* rationale, the calls and the outcomes as computed (one outcome per call, the
\* answered ones carrying the provider's content), and the diagnostic summary
\* with the cause.
C5_SummaryFailureKeepsResults ==
    (pc = "done" /\ llmCalls = 2 /\ llmResponse.raised) =>
        /\ returned.status = "returned"
        /\ returned.success
        /\ returned.reasoning = reasoning
        /\ returned.tool_calls = tool_calls
        /\ returned.results = results
        /\ Len(returned.results) = Len(tool_calls)
        /\ \A j \in 1..Len(provLog) :
              provLog[j].kind = "ok" =>
                  returned.results[provLog[j].idx].result[1].content = <<"payload">>
        /\ returned.summary = <<"Error generating summary: ", llmResponse.cause>>

\* the summary call raised after a batch with a successful and a failed call
C5_Witness ==
    /\ pc = "done"
    /\ llmCalls = 2
    /\ llmResponse.raised
    /\ \E i, k \in 1..Len(returned.results) :
          returned.results[i].success /\ ~ returned.results[k].success

SelectionFailed(r) ==
    r # << >> /\ r[1] \in {"Error in tool selection: ", "Failed to parse tool selection"}

\* C6 (success flag): the success flag of a returned record is false exactly
\* when the reasoning/extraction phase failed (it is true for every batch that
\* ran, whatever calls failed).
C6_SuccessReflectsCompletion ==
    returned.status = "returned" =>
        (returned.success <=> ~ SelectionFailed(returned.reasoning))

\* C7 (unknown provider): a call whose connector name is not registered when it
\* is dispatched has a failed outcome whose error text contains that name; no
\* exception leaves the executor and the other calls are still dispatched.
C7_UnknownProvider ==
    /\ \A j \in 1..Len(dispatchLog) :
          ~ dispatchLog[j].known =>
              LET i == dispatchLog[j].idx IN
              /\ Len(results) >= i
              /\ results[i].tool_call = tool_calls[i]
              /\ ~ results[i].success
              /\ results[i].result = None
              /\ results[i].error # None
              /\ tool_calls[i].connector_name \in Range(results[i].error[1])
    /\ tool_calls # << >> => pc # "raised"
    /\ ExecutorReturned => AllDispatched

\* call 1 named an unregistered connector, call 2 a registered one that answered
C7_Witness ==
    /\ pc = "done"
    /\ Len(dispatchLog) = 2
    /\ ~ dispatchLog[1].known
    /\ dispatchLog[2].known
    /\ results[2].success

PhaseOrders ==
    {<< >>,
     <<"CATALOGING">>,
     <<"CATALOGING", "SELECTING">>,
     <<"CATALOGING", "SELECTING", "DONE">>,
     <<"CATALOGING", "SELECTING", "EXECUTING">>,
     <<"CATALOGING", "SELECTING", "EXECUTING", "SUMMARIZING">>,
     <<"CATALOGING", "SELECTING", "EXECUTING", "SUMMARIZING", "DONE">>}

\* the phase the coroutine is in
PhaseOf(p) ==
    CASE p \in {"list_tools", "raised"} -> "CATALOGING"
      [] p \in {"select", "select_resume"} -> "SELECTING"
      [] p = "in_flight" -> "EXECUTING"
      [] p = "summary" -> "SUMMARIZING"
      [] p = "done" -> "DONE"

TimesDispatched(i) == Cardinality({j \in 1..Len(dispatchLog) : dispatchLog[j].idx = i})

\* C8 (phase order, no retries): the phases are entered in the order CATALOGING,
\* SELECTING, EXECUTING, SUMMARIZING, DONE (or CATALOGING, SELECTING, DONE),
\* none twice; the catalog is queried once, the backend is called once per
\* SELECTING and SUMMARIZING phase entered, so at most twice, and every call is
\* dispatched at most once, exactly once when the executor has returned.
C8_PhaseOrder ==
    /\ phaseLog \in PhaseOrders
    /\ pc = "idle" => phaseLog = << >> /\ catalogQueries = 0 /\ llmCalls = 0
    /\ pc # "idle" =>
          /\ phaseLog # << >>
          /\ phaseLog[Len(phaseLog)] = PhaseOf(pc)
          /\ catalogQueries = 1
    /\ llmCalls = Cardinality({i \in 1..Len(phaseLog) :
                                  phaseLog[i] \in {"SELECTING", "SUMMARIZING"}})
    /\ llmCalls <= 2
    /\ \A j \in 1..Len(dispatchLog) : dispatchLog[j].idx \in 1..Len(tool_calls)
    /\ \A i \in 1..Len(tool_calls) : TimesDispatched(i) <= 1
    /\ ExecutorReturned => \A i \in 1..Len(tool_calls) : TimesDispatched(i) = 1

\* a request went through all five phases although a call failed
C8_Witness ==
    /\ pc = "done"
    /\ phaseLog = <<"CATALOGING", "SELECTING", "EXECUTING", "SUMMARIZING", "DONE">>
    /\ llmCalls = 2
    /\ \E i \in 1..Len(results) : ~ results[i].success

\* C9 (sequential dispatch): at most one tools/call is in flight; the call in
\* flight is the one after the last recorded outcome; calls are dispatched in
\* list order, call i+1 only when call i has its outcome.
C9_SequentialDispatch ==
    /\ Cardinality(inflight) <= 1
    /\ inflight # {} => pc = "in_flight"
    /\ \A r \in inflight : r.idx = Len(results) + 1 /\ r.idx = Len(dispatchLog)
    /\ \A j \in 1..Len(dispatchLog) : dispatchLog[j].idx = j
    /\ Len(dispatchLog) <= Len(results) + 1
    /\ inflight = {} => Len(dispatchLog) = Len(results)

\* call 2 is in flight to another provider than call 1, which has been answered
C9_Witness ==
    /\ pc = "in_flight"
    /\ \E r \in inflight : r.idx = 2
    /\ Len(results) = 1
    /\ results[1].result # None
    /\ tool_calls[1].connector_name # tool_calls[2].connector_name

\* C10 (parse failure is fail-soft): when _select_tools reads an answer whose
\* cleaned text is not valid JSON, the request completes at once: it returns
\* the rationale "Failed to parse tool selection" with no tool calls and no
\* results, and nothing is dispatched.
C10_ParseFailureIsFailSoft ==
    [][(/\ pc = "select_resume"
        /\ pc' # "select_resume"
        /\ ~ llmResponse.raised
        /\ ~ json_loads(CleanContent(llmResponse.text)).ok)
       => (/\ pc' = "done"
           /\ returned'.status = "returned"
           /\ returned'.reasoning = <<"Failed to parse tool selection">>
           /\ returned'.tool_calls = << >>
           /\ returned'.results = << >>
           /\ tool_calls' = << >>
           /\ dispatchLog' = << >>)]_vars

\* a request has returned with the parse-failure rationale
C10_Witness ==
    /\ pc = "done"
    /\ returned.reasoning = <<"Failed to parse tool selection">>
    /\ returned.tool_calls = << >>
    /\ llmCalls = 1

(***************************************************************************)
(* The answer that _select_tools has read, for the properties of the       *)
(* extraction.                                                             *)
(***************************************************************************)
\* _select_tools has read a text answer of the backend for this request
AnswerRead == answerRead # NoAnswer /\ ~ answerRead.raised

\* the text, trimmed, begins with a code-block marker (with or without json)
BeginsWithFence(t) == strip(t) # << >> /\ Head(strip(t)).k \in {"fence_json", "fence"}

\* the text holds the serialization of a JSON document
HoldsJson(t) == \E i \in 1..Len(t) : t[i].k = "body" /\ t[i].doc # NoDoc

\* that document
JsonIn(t) == t[CHOOSE i \in 1..Len(t) : t[i].k = "body"].doc

\* the text is a JSON document in a ```json fence with a closing fence
IsJsonFenced(t) ==
    /\ Len(t) >= 3
    /\ Head(t).k = "fence_json"
    /\ HoldsJson(t)
    /\ \E i \in 1..Len(t) : t[i].k = "fence" /\ \A j \in (i + 1)..Len(t) : t[j].k = "ws"

\* C11 (fence tolerance): an answer whose trimmed text begins with a code-block
\* marker, with or without a language tag and with or without a closing marker,
\* and that encloses a JSON document is parsed: the extraction does not report
\* a parse failure for it.
C11_FenceTolerance ==
    (AnswerRead /\ BeginsWithFence(answerRead.text) /\ HoldsJson(answerRead.text))
        => reasoning # FailedToParse

\* C12 (fence round trip): extracting from a JSON object in a ```json fence with
\* a closing fence, with or without whitespace after it, gives the rationale and
\* the ordered calls that extracting from the bare object gives.
C12_FenceRoundTrip ==
    (AnswerRead /\ IsJsonFenced(answerRead.text) /\ JsonIn(answerRead.text).is_obj)
        => LET direct == ExtractIntent([raised |-> FALSE, cause |-> "",
                                        text |-> <<Body(JsonIn(answerRead.text))>>])
           IN  /\ reasoning = direct.reasoning
               /\ tool_calls = direct.tool_calls

C12_Witness ==
    /\ AnswerRead
    /\ answerRead.text = <<Tok("fence_json"), Tok("ws"),
                           Body(ListDoc(Some("two steps needed"),
                                        <<WellFormedItem("wf", "start_workflow")>>)),
                           Tok("ws"), Tok("fence")>>
    /\ Len(tool_calls) = 1
    /\ tool_calls[1].tool_name = "start_workflow"
    /\ reasoning = <<"two steps needed">>

\* an entry of tool_calls that is an object and lacks one of the four keys
LacksKey(item) == item.is_obj /\ FirstMissing(item) # 0

\* the document of the answer read is an object whose tool_calls is a list
ListRead ==
    /\ AnswerRead
    /\ json_loads(CleanContent(answerRead.text)).ok
    /\ json_loads(CleanContent(answerRead.text)).doc.is_obj
    /\ json_loads(CleanContent(answerRead.text)).doc.tc.kind = "list"

ItemsRead == json_loads(CleanContent(answerRead.text)).doc.tc.items

\* C13 (a malformed entry aborts the batch): when an entry of tool_calls lacks
\* one of the keys connector_name, tool_name, arguments, reasoning, the
\* extraction fails as a whole: it returns no call and an error rationale, and
\* no entry of the answer is dispatched, the well-formed ones before the
\* malformed one included.
C13_MalformedEntryAborts ==
    (ListRead /\ \E i \in 1..Len(ItemsRead) : LacksKey(ItemsRead[i]))
        => /\ tool_calls = << >>
           /\ reasoning # << >> /\ reasoning[1] = "Error in tool selection: "
           /\ dispatchLog = << >>
           /\ inflight = {}
           /\ results = << >>
           /\ pc = "done"
           /\ returned.tool_calls = << >> /\ returned.results = << >>

C13_Witness ==
    /\ ListRead
    /\ Len(ItemsRead) = 2
    /\ ItemsRead[1] \in GoodItems
    /\ LacksKey(ItemsRead[2])
    /\ ItemsRead[1].connector_name[1] \in DictKeys(connectors)
    /\ pc = "done"
    /\ dispatchLog = << >>

\* C14 (extraction preserves order and content): for an answer whose M entries
\* are all well formed, the extraction returns M calls, call i carrying the
\* four values of entry i, and the rationale is the answer's reasoning, or the
\* empty string when the answer has none.
C14_ExtractionPreservesOrder ==
    (ListRead /\ \A i \in 1..Len(ItemsRead) : ItemsRead[i].is_obj /\ ~ LacksKey(ItemsRead[i]))
        => /\ Len(tool_calls) = Len(ItemsRead)
           /\ \A i \in 1..Len(ItemsRead) :
                  /\ tool_calls[i].connector_name = ItemsRead[i].connector_name[1]
                  /\ tool_calls[i].tool_name = ItemsRead[i].tool_name[1]
                  /\ tool_calls[i].arguments = ItemsRead[i].arguments[1]
                  /\ tool_calls[i].reasoning = ItemsRead[i].reasoning[1]
           /\ LET r == json_loads(CleanContent(answerRead.text)).doc.reasoning IN
                  reasoning = IF r = None THEN << >> ELSE <<r[1]>>

C14_Witness ==
    /\ ListRead
    /\ Len(ItemsRead) = 2
    /\ ItemsRead[1] # ItemsRead[2]
    /\ Len(tool_calls) = 2
    /\ tool_calls[1].tool_name = ItemsRead[1].tool_name[1]
    /\ tool_calls[2].tool_name = ItemsRead[2].tool_name[1]

\* the entry of name in the result of list_all_tools
EntryOf(name) == all_tools[CHOOSE i \in 1..Len(all_tools) : all_tools[i].name = name].list

\* this step is the return of list_all_tools; its result is in all_tools'
CatalogReturns ==
    /\ pc \in {"idle", "list_tools"}
    /\ pc' = "select" \/ (pc' = "raised" /\ all_tools' # << >>)

\* what the providers answered is what the result holds under their names
AnswersKept ==
    /\ pc \in {"list_tools", "select"} =>
          \A j \in 1..Len(listLog) :
             /\ \E i \in 1..Len(all_tools) : all_tools[i].name = listLog[j].name
             /\ listLog[j].kind \in {"fault", "rpc_error"} =>
                    EntryOf(listLog[j].name) = [wellformed |-> TRUE, tools |-> << >>]
             /\ listLog[j].kind = "ok" =>
                    EntryOf(listLog[j].name) = [wellformed |-> TRUE, tools |-> listLog[j].tools]
    /\ (pc = "raised" /\ \A j \in 1..Len(listLog) : listLog[j].kind # "malformed") =>
          returned.exc \in {"RuntimeError: dictionary changed size during iteration",
                            "RuntimeError: dictionary keys changed during iteration"}

\* C15 (catalog isolation): the result of list_all_tools has one entry for every
\* registered provider; a provider that is unreachable or answers with an HTTP
\* error status (fault) or with a JSON-RPC error object has the empty list
\* under its name, and the list another provider answered is in the result as
\* it was answered.  No such answer ends list_all_tools with an exception.
C15_CatalogIsolation ==
    /\ [][CatalogReturns =>
             /\ {all_tools'[i].name : i \in 1..Len(all_tools')} = DictKeys(connectors')
             /\ Len(all_tools') = DictUsed(connectors')]_vars
    /\ []AnswersKept

\* two providers: the first failed, the second answered two tools
C15_Witness ==
    /\ pc = "select"
    /\ Len(listLog) = 2
    /\ listLog[1].kind = "fault"
    /\ listLog[2].kind = "ok"
    /\ listLog[1].name # listLog[2].name
    /\ EntryOf(listLog[1].name).tools = << >>
    /\ EntryOf(listLog[2].name).tools = <<"start_workflow", "register_actor">>

\* C16 (transport faults are wrapped): when a registered provider answers a
\* tools/call with a transport fault (HTTP error status, connection failure,
\* undecodable body) or with a JSON-RPC error object, call_tool does not raise:
\* it returns a result with empty content and an error message that is not null.
C16_TransportFaultsWrapped ==
    \A j \in 1..Len(provLog) :
       (provLog[j].kind \in {"fault", "rpc_error"} /\ Len(results) >= provLog[j].idx)
           => LET o == results[provLog[j].idx] IN
              /\ o.result # None
              /\ o.result[1].content = << >>
              /\ o.result[1].error # None
              /\ o.error # None
              /\ ~ o.success

\* this step is the return of a close_all that was suspended
CloseAllReturns == closeAll.pc = "await" /\ closeAll'.pc = "idle" /\ closeAll'.exc = ""

\* C17 (close_all releases every session and is idempotent): when close_all
\* returns and no add_connector ran while it was running, the registry is empty
\* and every session that add_connector ever opened is closed, whatever
\* add_connector and remove_connector calls came before, re-registration of a
\* name included; a close_all on the empty registry changes nothing and does
\* not raise.
C17_CloseAllReleasesEverySession ==
    [][/\ (CloseAllReturns /\ ~ closeAll.added) =>
             /\ DictKeys(connectors') = {}
             /\ \A c \in 1..Len(session') : session'[c] = "closed"
       /\ (closeAll.pc = "idle" /\ DictKeys(connectors) = {} /\ closeAll' # closeAll) =>
             /\ closeAll' = NotClosing("")
             /\ UNCHANGED <<connectors, session>>]_vars

\* C18 (unregister): remove_connector(name) closes the session of name and
\* removes name from the registry; called with a name that is not registered
\* it fails with an unknown-provider error (it never returns normally) and
\* leaves the registry unchanged.
C18_Unregister ==
    /\ [][\A name \in ConnectorNames :
             (delPending'[name] < delPending[name] /\ name \in DictKeys(connectors))
                 => /\ name \notin DictKeys(connectors')
                    /\ session'[DictGet(connectors, name)] = "closed"]_vars
    /\ [](removedAbsent = {})

\* this step is an add_connector; the MCPClient it made is Len(session')
AddConnectorStep == Len(session') = Len(session) + 1

\* C19 (register fails on an unreachable provider): an add_connector whose
\* base_url no provider listens on registers nothing.
C19_RegisterFailsUnreachable ==
    [][(AddConnectorStep /\ endpoint'[Len(endpoint')] = Unreachable)
           => connectors' = connectors]_vars

\* C20 (re-registration replaces silently): add_connector succeeds also for a
\* name that is registered: the new handle is registered under exactly that
\* name, a later call to the name goes to the new handle and its endpoint, the
\* other names keep their handles, and no session is closed, that of the
\* replaced handle included.
C20_ReRegistrationReplaces ==
    [][AddConnectorStep =>
          /\ \E name \in ConnectorNames :
                /\ DictKeys(connectors') = DictKeys(connectors) \cup {name}
                /\ DictGet(connectors', name) = Len(session')
                /\ call_tool_on_connector(connectors', session', name).client = Len(session')
                /\ \A other \in DictKeys(connectors) \ {name} :
                      DictGet(connectors', other) = DictGet(connectors, other)
          /\ \A c \in 1..Len(session) : session'[c] = session[c]
          /\ session'[Len(session')] = "open"]_vars

\* wf was registered twice, never removed: the registry holds the second
\* handle, and the session of the first is still open
C20_Witness ==
    /\ connectors = <<[name |-> "wf", client |-> 2]>>
    /\ session = <<"open", "open">>
    /\ endpoint = <<Reachable, Unreachable>>

\* the exceptions of a dict iterator whose dict was changed under it
DictIteratorErrors ==
    {"RuntimeError: dictionary changed size during iteration",
     "RuntimeError: dictionary keys changed during iteration"}

\* C21 (registry reads are safe to interleave): a list_all_tools that is
\* suspended at a provider's tools/list while add_connector or remove_connector
\* runs on the manager completes without raising.
C21_RegistryReadsInterleave ==
    ~ (pc = "raised" /\ returned.exc \in DictIteratorErrors)

\* C22 (removal in mid-dispatch): when the session of a provider is closed by a
\* remove_connector while a call to it is in flight, the call ends with a
\* definite outcome, a failed one with a reason, and the executor goes on: no
\* exception leaves it.
C22_RemovalMidDispatch ==
    /\ \A j \in 1..Len(provLog) :
          provLog[j].closed =>
             /\ Len(results) >= provLog[j].idx
             /\ ~ results[provLog[j].idx].success
             /\ results[provLog[j].idx].error # None
             /\ results[provLog[j].idx].result # None
             /\ results[provLog[j].idx].tool_call = tool_calls[provLog[j].idx]
    /\ (\E j \in 1..Len(provLog) : provLog[j].closed) =>
          /\ pc \in {"in_flight", "summary", "done"}
          /\ returned.status # "raised"
    /\ \A r \in inflight : r.idx = Len(results) + 1

\* the provider of call 1 was removed while call 1 was in flight; call 2 was
\* dispatched after it and the request completed
C22_Witness ==
    /\ pc = "done"
    /\ Len(provLog) >= 1
    /\ provLog[1].closed
    /\ dispatchLog[1].known
    /\ tool_calls[1].connector_name \notin DictKeys(connectors)
    /\ Len(returned.results) = 2
    /\ ~ returned.results[1].success

\* the kind of a diagnostic: its fixed text, without the cause that follows it
DiagnosticKind(r) == IF r = << >> THEN "" ELSE r[1]

\* the backend answered, and its output is unparseable or has an entry of
\* tool_calls that lacks a key
MalformedOutput ==
    /\ AnswerRead
    /\ \/ ~ json_loads(CleanContent(answerRead.text)).ok
       \/ ListRead /\ \E i \in 1..Len(ItemsRead) : LacksKey(ItemsRead[i])

\* C25 (reasoning unavailable is distinguishable from nonsense output): the
\* result of a request whose backend call raised during selection carries a
\* diagnostic of another kind than the result of a request whose backend
\* answered malformed output.
C25_DistinguishableDiagnostics ==
    \A cause \in {"backend unavailable"} :
       /\ (answerRead # NoAnswer /\ answerRead.raised /\ returned.status = "returned")
              => DiagnosticKind(returned.reasoning) = DiagnosticKind(ErrorInToolSelection(cause))
       /\ (MalformedOutput /\ returned.status = "returned")
              => DiagnosticKind(returned.reasoning) # DiagnosticKind(ErrorInToolSelection(cause))

\* the number of tools that the providers before provider i of all_tools list
RECURSIVE ToolsBefore(_)
ToolsBefore(i) == IF i = 1 THEN 0 ELSE ToolsBefore(i - 1) + Len(all_tools[i - 1].list.tools)

\* C26 (catalog flattening): the catalog _get_available_tools returns has
\* exactly one descriptor for each tool of each provider's list in the result
\* of list_all_tools, with the name of the provider that listed it, provider by
\* provider in the order of the result and within a provider in the order of
\* its list; a tool name that two providers list is there once for each.
C26_CatalogFlattening ==
    pc = "select" =>
       /\ Len(available_tools) = ToolsBefore(Len(all_tools) + 1)
       /\ \A i \in 1..Len(all_tools) : \A k \in 1..Len(all_tools[i].list.tools) :
              available_tools[ToolsBefore(i) + k] =
                  [name |-> all_tools[i].list.tools[k], connector_name |-> all_tools[i].name]

\* two providers that both list start_workflow, the first one another tool too
C26_Witness ==
    /\ pc = "select"
    /\ Len(all_tools) = 2
    /\ all_tools[1].list.tools = <<"start_workflow", "register_actor">>
    /\ all_tools[2].list.tools = <<"start_workflow">>
    /\ Len(available_tools) = 3
    /\ available_tools[1].name = "start_workflow"
    /\ available_tools[3].name = "start_workflow"
    /\ available_tools[1].connector_name # available_tools[3].connector_name

\* C27 (no catalog caching): every request runs one catalog query of its own;
\* the tool list that goes into its selection prompt holds exactly the tools
\* that the providers registered during this query answered to it, and a
\* provider that was not asked in this request contributes nothing; between two
\* requests the agent keeps no catalog.
C27_NoCatalogCaching ==
    /\ pc \notin {"idle"} => catalogQueries = 1
    /\ pc = "idle" => all_tools = << >> /\ available_tools = << >> /\ listLog = << >>
    /\ pc = "select" =>
          /\ {<<available_tools[i].connector_name, available_tools[i].name>> :
                 i \in 1..Len(available_tools)}
               = UNION {{<<listLog[j].name, listLog[j].tools[k]>> :
                            k \in 1..Len(listLog[j].tools)} :
                        j \in {i \in 1..Len(listLog) : listLog[i].kind = "ok"}}
          /\ \A i \in 1..Len(all_tools) :
                (\A j \in 1..Len(listLog) : listLog[j].name # all_tools[i].name)
                    => all_tools[i].list.tools = << >>

\* wf was registered and then unregistered, db is registered: the catalog of
\* this request holds the tools db answers now, and nothing of wf
C27_Witness ==
    /\ pc = "select"
    /\ connectors = <<Tombstone, [name |-> "db", client |-> 2]>>
    /\ Len(listLog) = 1
    /\ listLog[1].tools = <<"start_workflow", "register_actor">>
    /\ Len(available_tools) = 2
    /\ \A i \in 1..2 : available_tools[i].connector_name = "db"

\* every call of the batch went to a registered provider and was answered with
\* a result, and the summary call returned a text
AllSucceeded ==
    /\ pc = "done"
    /\ Len(tool_calls) >= 1
    /\ Len(provLog) = Len(tool_calls)
    /\ \A j \in 1..Len(provLog) : provLog[j].kind = "ok"
    /\ ~ llmResponse.raised

\* C30 (end-to-end success path): when the backend's answer is well formed with
\* k >= 1 tool calls, every call names a registered provider that answers it
\* with a result, and the summary call succeeds, process_request returns
\* success true, the k calls of the answer, k successful outcomes in the order
\* of the calls, and the text of the summary call as summary.
C30_EndToEndSuccess ==
    AllSucceeded =>
       /\ returned.status = "returned"
       /\ returned.success
       /\ ListRead
       /\ Len(returned.tool_calls) = Len(ItemsRead)
       /\ \A i \in 1..Len(ItemsRead) :
              returned.tool_calls[i].tool_name = ItemsRead[i].tool_name[1]
       /\ Len(returned.results) = Len(returned.tool_calls)
       /\ \A i \in 1..Len(returned.results) :
              /\ returned.results[i].success
              /\ returned.results[i].error = None
              /\ returned.results[i].tool_call = returned.tool_calls[i]
              /\ returned.results[i].result[1].content = <<"payload">>
       /\ returned.summary = llmResponse.text

\* two calls to two providers, both answered, and the narrative returned
C30_Witness ==
    /\ AllSucceeded
    /\ Len(returned.results) = 2
    /\ returned.tool_calls[1].connector_name # returned.tool_calls[2].connector_name
    /\ returned.summary = <<"narrative">>

\* a credential that is absent or empty
NoCredential(key) == key = None \/ key = Some("")

\* C23: building the agent with no Gemini credential and no Anthropic
\* credential, each absent or empty, raises, and no request is processed on
\* such an agent; with at least one credential construction succeeds.
C23_ConstructionNeedsBackend ==
    /\ agent.state # "new" =>
          (agent.state = "raised"
              <=> NoCredential(credentials[1]) /\ NoCredential(credentials[2]))
    /\ agent.state # "new" =>
          (agent.state = "ok"
              <=> ~ NoCredential(credentials[1]) \/ ~ NoCredential(credentials[2]))
    /\ agent.state # "ok" =>
          pc = "idle" /\ phaseLog = << >> /\ llmCalls = 0 /\ catalogQueries = 0

\* the construction with an empty Gemini key and no Anthropic key has raised
C23_Witness ==
    /\ agent.state = "raised"
    /\ credentials = <<Some(""), None>>

\* the backend the constructor's keys select
BackendOf(keys) == IF ~ NoCredential(keys[1]) THEN "gemini" ELSE "anthropic"

\* C24: every reasoning call of one agent, for selection and for summary, in
\* every request, goes to the one backend the construction selected, also when
\* both keys were given and an earlier call has failed; the agent's backends
\* do not change after the construction.
C24_OneBackendPerAgent ==
    /\ [][agent.state = "ok" => agent' = agent /\ credentials' = credentials]_vars
    /\ [](/\ Len(backendLog) = llmCalls
          /\ \A i \in 1..Len(backendLog) :
                /\ backendLog[i] = BackendOf(credentials)
                /\ backendLog[i] = "gemini" => ~ NoCredential(credentials[1])
                /\ backendLog[i] = "anthropic" => ~ NoCredential(credentials[2]))

\* an agent with both keys has made the summary call after calls whose
\* selection it made, and the summary call has failed
C24_Witness ==
    /\ credentials = <<Some("gemini-key"), Some("anthropic-key")>>
    /\ pc = "done"
    /\ backendLog = <<"gemini", "gemini">>
    /\ llmResponse.raised
    /\ results # << >>

\* C28: when every catalog query, reasoning call and provider call is
\* answered, a process_request that has been started eventually returns its
\* result.
C28_TerminationWithoutTimeouts == (pc # "idle") ~> (pc = "done")

\* a process_request that has been started eventually returns or raises
RequestEnds == (pc # "idle") ~> (pc \in {"done", "raised"})

\* the invocation with the locals f holds, dispatches and returns its own calls:
\* the calls extracted from the answer it has read itself, each outcome that
\* of the call at its place, the call in flight the next one of its own list
HoldsItsOwn(f) ==
    /\ f.pc \in {"in_flight", "summary", "done"} =>
          f.tool_calls = ExtractIntent(f.answerRead).tool_calls
    /\ Len(f.results) <= Len(f.tool_calls)
    /\ \A k \in 1..Len(f.results) : f.results[k].tool_call = f.tool_calls[k]
    /\ \A k \in 1..Len(f.dispatchLog) : f.dispatchLog[k].idx = k
    /\ Len(f.dispatchLog) = Len(f.results) + Cardinality(f.inflight)
    /\ \A r \in f.inflight : r.idx = Len(f.results) + 1
    /\ f.returned.status = "returned" =>
          /\ f.returned.tool_calls = f.tool_calls
          /\ f.returned.results = f.results
          /\ Len(f.results) = Len(f.tool_calls)

\* C29: two process_request invocations interleaved on one agent and one
\* registry: a run of one leaves the locals of the other as they are, and each
\* returns the calls extracted from its own answer with their outcomes in its
\* own order; no call of one is dispatched for or reported by the other.
C29_RequestIsolation ==
    /\ [][running' = running => suspended' = suspended]_vars
    /\ [](HoldsItsOwn(Frame) /\ HoldsItsOwn(suspended))

\* both invocations have a call in flight, of different selections; the
\* running one has the outcome of its first call already
C29_Witness ==
    /\ pc = "in_flight"
    /\ suspended.pc = "in_flight"
    /\ results # << >>
    /\ suspended.tool_calls # << >>
    /\ suspended.tool_calls # tool_calls

\* the heading the line at place i of the text stands under ("": none)
RECURSIVE HeadingAbove(_, _)
HeadingAbove(text, i) ==
    IF i = 0 THEN ""
    ELSE IF text[i].k = "heading" THEN text[i].v
    ELSE HeadingAbove(text, i - 1)

\* the lines of the text that name tool t under the heading of provider p
LinesOf(text, p, t) ==
    {i \in 1..Len(text) : text[i].k = "tool" /\ text[i].v = t /\ HeadingAbove(text, i) = p}

\* the places of tool t in the list the catalog holds for provider p
PlacesOf(catalog, p, t) ==
    {ij \in UNION {{i} \X (1..Len(catalog[i].list.tools)) : i \in 1..Len(catalog)} :
        /\ catalog[ij[1]].name = p
        /\ catalog[ij[1]].list.tools[ij[2]] = t}

\* C31: get_available_tools_summary returns the fixed text for a catalog
\* without tools; otherwise every tool of the catalog stands in the text
\* exactly once under the heading of its provider, no tool stands under a
\* provider that does not list it, and no provider has two headings.
C31_ToolsSummaryGrouping ==
    (pc = "done" /\ returned.status = "returned") =>
        LET text == returned.summary IN
        /\ (\A i \in 1..Len(all_tools) : all_tools[i].list.tools = << >>)
              <=> text = NoToolsAvailable
        /\ \A p \in ConnectorNames \cup {""}, t \in ToolNames :
              Cardinality(LinesOf(text, p, t)) = Cardinality(PlacesOf(all_tools, p, t))
        /\ \A i, j \in 1..Len(text) :
              text[i].k = "heading" /\ text[j].k = "heading" /\ text[i].v = text[j].v => i = j

\* both providers list start_workflow, one of them register_actor as well, and
\* the summary has been returned
C31_Witness ==
    /\ pc = "done"
    /\ returned.status = "returned"
    /\ Len(all_tools) = 2
    /\ all_tools[1].list.tools = <<"start_workflow", "register_actor">>
    /\ all_tools[2].list.tools = <<"start_workflow">>
    /\ Len(returned.summary) = 8

\* C32: every outcome of _execute_tool_calls has success true exactly when its
\* error is null; a successful outcome carries the provider's result; a
\* JSON-RPC error reported by the provider gives success false, the reported
\* message as error and empty content; a dispatch that raised gives success
\* false, a null result and the text of the exception as error.
C32_OutcomeConsistency ==
    /\ \A k \in 1..Len(results) :
          /\ results[k].success <=> results[k].error = None
          /\ results[k].success =>
                results[k].result # None /\ results[k].result[1].error = None
          /\ ~ dispatchLog[k].known =>
                /\ ~ results[k].success
                /\ results[k].result = None
                /\ results[k].error =
                      Some(<<"Connector '", tool_calls[k].connector_name, "' not found">>)
    /\ \A j \in 1..Len(provLog) :
          Len(results) >= provLog[j].idx =>
              LET o == results[provLog[j].idx] IN
              /\ provLog[j].kind = "ok" =>
                    o.success /\ o.result[1].content = <<"payload">>
              /\ provLog[j].kind = "rpc_error" =>
                    /\ ~ o.success
                    /\ o.error = (IF provLog[j].message = None
                                  THEN None ELSE Some(provLog[j].message))
                    /\ o.result # None
                    /\ o.result[1].content = << >>

\* call k is handed to call_tool_on_connector in this step
DispatchedNow(k) == Len(dispatchLog) < k /\ k <= Len(dispatchLog')

\* C33: the provider of a call is looked up when the call is dispatched: a call
\* whose provider is not registered at that moment gets a failed outcome that
\* names the provider, a call whose provider is registered goes to the handle
\* registered at that moment (or fails at once on its closed session), whatever
\* the registry held when the calls were extracted; the outcomes recorded before
\* stay as they are.
C33_ResolvedAtDispatch ==
    [][
        /\ \A k \in 1..MaxCalls :
              DispatchedNow(k) =>
                  LET name == tool_calls'[k].connector_name IN
                  IF name \notin DictKeys(connectors)
                  THEN /\ Len(results') >= k
                       /\ ~ results'[k].success
                       /\ results'[k].result = None
                       /\ results'[k].error = Some(<<"Connector '", name, "' not found">>)
                  ELSE IF session[DictGet(connectors, name)] = "closed"
                  THEN /\ Len(results') >= k
                       /\ ~ results'[k].success
                       /\ results'[k].result # None
                  ELSE /\ Len(results') = k - 1
                       /\ inflight' = {[idx |-> k, client |-> DictGet(connectors, name)]}
        /\ (results' # << >> =>
              /\ Len(results') >= Len(results)
              /\ SubSeq(results', 1, Len(results)) = results)
    ]_vars

\* two calls to one provider: the first was served, then the provider was
\* unregistered, and the second call found no provider
C33_Witness ==
    /\ pc = "done"
    /\ Len(results) = 2
    /\ tool_calls[1].connector_name = tool_calls[2].connector_name
    /\ results[1].success
    /\ dispatchLog[1].known
    /\ ~ dispatchLog[2].known
    /\ ~ results[2].success
    /\ results[2].result = None



\* C34: a step of process_request (any step that changes the variables or the
\* logs of the request: its start, an answer of a provider or of the backend,
\* the selection, a dispatch, its return or its exception) leaves the registered
\* names, their clients, the endpoints and every session as they were; only
\* add_connector, remove_connector and close_all change them
C34_RegistryUnchanged ==
    [][ (<<reqVars, histVars>>' # <<reqVars, histVars>>)
            => UNCHANGED <<connectors, session, endpoint>> ]_vars

\* a request has ended after an exchange failed on an open session, and the
\* provider it called is still registered with its session open
C34_Witness ==
    /\ pc = "done"
    /\ returned.status = "returned"
    /\ \E j \in 1..Len(provLog) :
          /\ provLog[j].kind = "fault"
          /\ ~ provLog[j].closed
          /\ tool_calls[provLog[j].idx].connector_name \in DictKeys(connectors)
          /\ session[DictGet(connectors, tool_calls[provLog[j].idx].connector_name)] = "open"


\* the answer is JSON of the wrong shape: a document that is no object, or an
\* object whose tool_calls is absent, null, a scalar, a string or an object, or
\* a list with an entry that is no object
WrongShaped(resp) ==
    /\ ~ resp.raised
    /\ json_loads(CleanContent(resp.text)).ok
    /\ LET doc == json_loads(CleanContent(resp.text)).doc IN
          \/ ~ doc.is_obj
          \/ doc.tc.kind \in {"absent", "null", "scalar", "iterable"}
          \/ (doc.tc.kind = "list" /\ \E i \in 1..Len(doc.tc.items) : ~ doc.tc.items[i].is_obj)

\* C35: when _select_tools reads an answer that is JSON of the wrong shape, it
\* returns without raising and without calls, and the request ends at once by
\* the zero-call return: success, no tool calls, no results, the fixed summary
\* "No tools were needed for this request.", nothing dispatched and no second
\* call of the backend
C35_WrongShapeIsFailSoft ==
    [][(/\ pc = "select_resume"
        /\ pc' # "select_resume"
        /\ WrongShaped(llmResponse))
       => (/\ pc' = "done"
           /\ returned'.status = "returned"
           /\ returned'.success
           /\ returned'.tool_calls = << >>
           /\ returned'.results = << >>
           /\ returned'.summary = NoToolsNeeded
           /\ tool_calls' = << >>
           /\ results' = << >>
           /\ inflight' = {}
           /\ dispatchLog' = << >>
           /\ llmCalls' = llmCalls)]_vars

\* a request has ended after an answer whose tool_calls is a list of one
\* well-formed call to a registered provider followed by an entry that is no
\* object
C35_Witness ==
    /\ pc = "done"
    /\ WrongShaped(answerRead)
    /\ LET doc == json_loads(CleanContent(answerRead.text)).doc IN
          /\ doc.is_obj
          /\ doc.tc.kind = "list"
          /\ Len(doc.tc.items) = 2
          /\ doc.tc.items[1] \in GoodItems
          /\ ~ doc.tc.items[2].is_obj
          /\ doc.tc.items[1].connector_name[1] \in DictKeys(connectors)
    /\ returned.summary = NoToolsNeeded
    /\ dispatchLog = << >>


\* C36 (concurrent removal is safe): a remove_connector(name) that is suspended
\* in session.close() while another remove_connector(name) or close_all runs on
\* the manager never raises: neither a remove_connector nor close_all ends with
\* the KeyError of `del self.connectors[name]`; and when the last of the
\* suspended remove_connector(name) has returned, name is not registered.
C36_ConcurrentRemovalIsSafe ==
    /\ [](delRaised = {} /\ closeAll.exc # "KeyError")
    /\ [][\A name \in ConnectorNames :
             (delPending[name] > 0 /\ delPending'[name] = 0)
                 => name \notin DictKeys(connectors')]_vars

====
